---- MODULE Spec2Model ----
(***************************************************************************)
(* Model of the virtual filesystem layer of sshtool: the path guard        *)
(* (normalizePath, ContainsValidDir), the native directory mount (DirFs),  *)
(* the union mount (CombinedFS) and the permission wrapper                 *)
(* (PermWrapperFS) with its filtered listing iterator.                     *)
(*                                                                         *)
(* Strings are sequences of one-character strings, so that the index       *)
(* arithmetic of the Go code can be followed literally.  Go indices are    *)
(* zero based; At(s, i) reads the byte at Go index i.                      *)
(***************************************************************************)
EXTENDS Integers, Sequences, FiniteSets, TLC

VARIABLES
    pathIn,      \* path guard: the input string of the call
    pathRes,     \* path guard: the call made and its result
    dirFS,       \* DirFs: the mount {Root, Readonly}
    dirRes,      \* DirFs: last operation, its result and the host paths it touched
    policy,      \* PermWrapperFS: CanReadRegexp, CanWriteRegexp, ShouldHideRegexp
    pwRes,       \* PermWrapperFS: last operation, its result, the calls made to Inner
    lsFS,        \* listing: the filesystem whose directory is listed
    lsIter,      \* listing: the open iterator (closure state of the wrapper)
    lsPage,      \* listing: the caller's paging state and the last fill result
    cfs,         \* CombinedFS: the mount table Dirs
    cfsRes,      \* CombinedFS: last operation, its result, the host and mount calls it made
    mvFS,        \* cross-mount rename: the directory trees of the two mounts
    mvRes,       \* cross-mount rename: the call, its result and the trees before it
    fab,         \* SSHConnectionHandler: mutex, listeners map, slice arrays, contexts
    lsn,         \* sshConnectionListener: fields, channel, Accept loop and Close, per listener
    req,         \* HandleTCPIP: the position and locals of each forwarded-channel request
    boot,        \* ContextSftp: the configuration, the listeners' servers, the SFTP sessions
    dav,         \* WebDAV: the served file and the open handle (variant, offset, stat, reader, writer)
    davRes,      \* WebDAV: the last call on the handle and what it returned
    adp,         \* SFTP adapter: the request handled, the filesystem's answer, the access log
    lg,          \* logger: the channels, the producers and the writer goroutine
    cmd          \* cmd server: activeConnections and the sessions

unionVars == <<cfs, cfsRes>>
moveVars == <<mvFS, mvRes>>
fabVars == <<fab, lsn, req>>
svcVars == <<boot, dav, davRes, adp, lg, cmd>>

vars == <<pathIn, pathRes, dirFS, dirRes, policy, pwRes, lsFS, lsIter, lsPage, unionVars, moveVars, fabVars, svcVars>>

----------------------------------------------------------------------------
(* Bounds *)

MaxLen == 6        \* longest input string given to the path guard
MaxDirLen == 4     \* longest virtual path given to a DirFs operation
MaxPairLen == 2    \* longest path of a two-path DirFs operation (rename, link, symlink)
MaxEntries == 3    \* most entries in a listed directory / mounts in a union
MaxBuf == 3        \* largest buffer handed to a listing iterator
MaxOff == 4        \* largest offset handed to a listing iterator
MaxRegs == 2       \* most regular expressions in one policy list
MaxSegs == 1       \* most path elements below the mount name in a path given to a union mount
MaxDepth == 2      \* deepest nesting of directories in a renamed tree
MaxCopied == 4     \* most pieces that either copy of WrapPTY moves
MaxFault == 12     \* latest call on the host that fails during a cross-mount rename
MaxWide == 6       \* most entries of a flat directory that is renamed
MaxReqs == 1       \* most forwarded-channel requests handled while listeners come and go
MaxServed == 3     \* most forwarded-channel requests handled by the server as Listen wires it
MaxStopped == 2    \* most forwarded-channel requests handled by a server that is cancelled
MaxSessions == 2   \* most SFTP sessions opened on a started server
MaxClients == 3    \* most ssh sessions open on the cmd server at once
MaxLimit == 2      \* largest MaxNumberOfConnections of the cmd server
MaxPrints == 2     \* most log calls of one goroutine
MaxLogged == 2     \* most requests handled by one SFTP adapter
MaxListed == 11    \* most entries of a directory read with Readdir
MaxFile == 3       \* largest size of the file behind a WebDAV handle, longest buffer of a Read or Write

----------------------------------------------------------------------------
(* Strings *)

Chars == {"/", ".", "a", "r"}

RECURSIVE StringsUpTo(_)
StringsUpTo(n) ==
    IF n = 0 THEN {<<>>}
    ELSE LET shorter == StringsUpTo(n - 1)
         IN  shorter \cup {Append(s, c) : s \in {t \in shorter : Len(t) = n - 1}, c \in Chars}

At(s, i) == s[i + 1]

\* s[:n] of Go; the caller guarantees n <= len(s)
Prefix(s, n) == SubSeq(s, 1, n)

HasPrefix(s, p) == Len(p) <= Len(s) /\ SubSeq(s, 1, Len(p)) = p

----------------------------------------------------------------------------
(* path/filepath of the Go standard library, Unix build *)

Separator == "/"

\* filepath.ToSlash: replaces Separator by '/'
ToSlash(path) == [i \in 1..Len(path) |-> IF path[i] = Separator THEN "/" ELSE path[i]]

\* the elements between slashes, empty ones included
RECURSIVE SplitSlash(_)
SplitSlash(s) ==
    IF \A i \in 1..Len(s) : s[i] # "/" THEN <<s>>
    ELSE LET k == CHOOSE i \in 1..Len(s) : s[i] = "/" /\ \A j \in 1..(i - 1) : s[j] # "/"
         IN  <<SubSeq(s, 1, k - 1)>> \o SplitSlash(SubSeq(s, k + 1, Len(s)))

RECURSIVE JoinSlash(_)
JoinSlash(elems) ==
    IF Len(elems) = 0 THEN <<>>
    ELSE IF Len(elems) = 1 THEN elems[1]
    ELSE elems[1] \o <<"/">> \o JoinSlash(Tail(elems))

Dot == <<".">>
DotDot == <<".", ".">>

\* filepath.Clean, element by element: out is the stack of elements kept,
\* a ".." pops the last kept element unless none is left to pop (then it
\* is dropped on a rooted path and kept on a relative one).
RECURSIVE CleanElems(_, _, _)
CleanElems(elems, out, rooted) ==
    IF Len(elems) = 0 THEN out
    ELSE LET e == Head(elems)
             rest == Tail(elems)
         IN  IF e = <<>> \/ e = Dot THEN CleanElems(rest, out, rooted)
             ELSE IF e = DotDot
                  THEN IF Len(out) > 0 /\ out[Len(out)] # DotDot
                       THEN CleanElems(rest, SubSeq(out, 1, Len(out) - 1), rooted)
                       ELSE IF rooted THEN CleanElems(rest, out, rooted)
                            ELSE CleanElems(rest, Append(out, e), rooted)
                  ELSE CleanElems(rest, Append(out, e), rooted)

\* the kept elements put together; the empty relative path is "."
CleanOut(rooted, out) ==
    IF rooted THEN <<"/">> \o JoinSlash(out)
    ELSE IF Len(out) = 0 THEN Dot ELSE JoinSlash(out)

Clean(path) ==
    IF Len(path) = 0 THEN Dot
    ELSE CleanOut(path[1] = "/", CleanElems(SplitSlash(path), <<>>, path[1] = "/"))

\* filepath.Join of two elements: empty elements are ignored, the rest is
\* joined with the separator and cleaned; the join of nothing is "".
Join(a, b) ==
    IF Len(a) = 0 /\ Len(b) = 0 THEN <<>>
    ELSE IF Len(a) = 0 THEN Clean(b)
    ELSE IF Len(b) = 0 THEN Clean(a)
    ELSE Clean(a \o <<"/">> \o b)

----------------------------------------------------------------------------
(* Path guard *)

\* the inner loop of ContainsValidDir: fast-forward to the next directory
RECURSIVE FastForward(_, _)
FastForward(path, i) ==
    IF i < Len(path)
    THEN IF At(path, i) = "/" THEN i + 1 ELSE FastForward(path, i + 1)
    ELSE i

\* mutant: the ".." test is missing
RECURSIVE ContainsValidDirLoop_NoDotDot(_, _)
ContainsValidDirLoop_NoDotDot(path, i) ==
    LET n == Len(path)
    IN  IF i < n
        THEN IF At(path, i) = "/" /\ i > 0 THEN FALSE
             ELSE IF At(path, i) = "." /\ (i + 1 = n \/ At(path, i + 1) = "/") THEN FALSE
             ELSE ContainsValidDirLoop_NoDotDot(path, FastForward(path, i + 1))
        ELSE TRUE

\* mutant: the "//" test is missing
RECURSIVE ContainsValidDirLoop_NoEmpty(_, _)
ContainsValidDirLoop_NoEmpty(path, i) ==
    LET n == Len(path)
    IN  IF i < n
        THEN IF At(path, i) = "." /\ (i + 1 = n \/ At(path, i + 1) = "/") THEN FALSE
             ELSE IF At(path, i) = "." /\ At(path, i + 1) = "."
                     /\ (i + 2 = n \/ At(path, i + 2) = "/") THEN FALSE
             ELSE ContainsValidDirLoop_NoEmpty(path, FastForward(path, i + 1))
        ELSE TRUE

RECURSIVE ContainsValidDirLoop(_, _)
ContainsValidDirLoop(path, i) ==
    LET n == Len(path)
    IN  IF i < n
        THEN IF At(path, i) = "/" /\ i > 0 THEN FALSE
             ELSE IF At(path, i) = "." /\ (i + 1 = n \/ At(path, i + 1) = "/") THEN FALSE
             ELSE IF At(path, i) = "." /\ At(path, i + 1) = "."
                     /\ (i + 2 = n \/ At(path, i + 2) = "/") THEN FALSE
             ELSE ContainsValidDirLoop(path, FastForward(path, i + 1))
        ELSE TRUE

\* the caller guarantees a non-empty path (path[0] of "" is out of range)
ContainsValidDir(path) ==
    ContainsValidDirLoop(path, IF At(path, 0) = "/" THEN 1 ELSE 0)

\* the test at the end of normalizePath
CheckNormalized(path) ==
    IF ~ContainsValidDir(path) THEN [err |-> "wrong path", path |-> <<>>]
    ELSE [err |-> "nil", path |-> path]

EmptyToRoot(path) == IF path = <<>> THEN <<"/">> ELSE path

normalizePath(path) == CheckNormalized(EmptyToRoot(ToSlash(Clean(path))))

\* a caller of normalizePath (the request adapters call it on every request path)
CallNormalizePath ==
    /\ pathRes.fn = "none"
    /\ pathRes' = [fn |-> "normalizePath", ret |-> normalizePath(pathIn)]
    /\ UNCHANGED <<pathIn, dirFS, dirRes, policy, pwRes, lsFS, lsIter, lsPage, unionVars, moveVars, fabVars, svcVars>>

\* a caller of ContainsValidDir; on the empty string the index path[0] panics
CallContainsValidDir ==
    /\ pathRes.fn = "none"
    /\ pathRes' = [fn |-> "ContainsValidDir",
                   ret |-> IF Len(pathIn) = 0 THEN "panic"
                           ELSE IF ContainsValidDir(pathIn) THEN "true" ELSE "false"]
    /\ UNCHANGED <<pathIn, dirFS, dirRes, policy, pwRes, lsFS, lsIter, lsPage, unionVars, moveVars, fabVars, svcVars>>

NoPathCall == [fn |-> "none"]
NoDirFS == [Root |-> <<>>, Readonly |-> FALSE]
NoDirCall == [op |-> "none"]
NoPolicy == [CanReadRegexp |-> <<>>, CanWriteRegexp |-> <<>>, ShouldHideRegexp |-> <<>>]
NoPwCall == [op |-> "none"]
NoLsFS == [kind |-> "none"]
NoLsIter == [open |-> FALSE]
NoLsPage == [seq |-> FALSE, next |-> 0, acc |-> <<>>, done |-> FALSE, last |-> [buf |-> 0]]
NoCfs == [Dirs |-> <<>>]
NoCfsCall == [op |-> "none"]

NoMvFS == [kind |-> "none"]
NoMvCall == [op |-> "none"]

\* the union mount is not part of the run
\* no SSHConnectionHandler constructed
NoFab == [wiring |-> "none"]
NoLsn == <<>>
NoReq == <<>>
\* the services around the filesystem layer are not running
NoBoot == [kind |-> "none"]
NoDav == [kind |-> "none"]
NoDavCall == [op |-> "none"]
NoAdp == [kind |-> "none"]
NoLog == [kind |-> "none"]
NoCmd == [kind |-> "none"]
ServicesIdle ==
    /\ boot = NoBoot /\ dav = NoDav /\ davRes = NoDavCall
    /\ adp = NoAdp /\ lg = NoLog /\ cmd = NoCmd

FabricIdle == fab = NoFab /\ lsn = NoLsn /\ req = NoReq /\ ServicesIdle

UnionIdle == cfs = NoCfs /\ cfsRes = NoCfsCall /\ mvFS = NoMvFS /\ mvRes = NoMvCall /\ FabricIdle

InitPath ==
    /\ pathIn \in StringsUpTo(MaxLen)
    /\ pathRes = NoPathCall
    /\ dirFS = NoDirFS /\ dirRes = NoDirCall
    /\ policy = NoPolicy /\ pwRes = NoPwCall
    /\ lsFS = NoLsFS /\ lsIter = NoLsIter /\ lsPage = NoLsPage
    /\ UnionIdle

NextPath == CallNormalizePath \/ CallContainsValidDir

SpecPath == InitPath /\ [][NextPath]_vars

----------------------------------------------------------------------------
(* Properties of the path guard *)

HasDoubleSlash(s) == \E i \in 1..(Len(s) - 1) : s[i] = "/" /\ s[i + 1] = "/"

HasSegment(s, seg) == \E i \in DOMAIN SplitSlash(s) : SplitSlash(s)[i] = seg

\* the segments of a path: the elements between slashes, without the empty
\* element before a leading slash and the empty element after one trailing slash
SegmentsOf(s) ==
    LET all == SplitSlash(s)
        body == IF s[1] = "/" THEN Tail(all) ELSE all
    IN  IF Len(body) > 0 /\ body[Len(body)] = <<>>
        THEN SubSeq(body, 1, Len(body) - 1) ELSE body

HasBadSegment(s) ==
    \E i \in DOMAIN SegmentsOf(s) : SegmentsOf(s)[i] \in {<<>>, Dot, DotDot}

\* depth of a relative path below its start after each element; a ".." at
\* depth 0 climbs above the start
RECURSIVE ClimbsFrom(_, _)
ClimbsFrom(elems, depth) ==
    IF Len(elems) = 0 THEN FALSE
    ELSE LET e == Head(elems)
         IN  IF e = <<>> \/ e = Dot THEN ClimbsFrom(Tail(elems), depth)
             ELSE IF e = DotDot
                  THEN depth = 0 \/ ClimbsFrom(Tail(elems), depth - 1)
                  ELSE ClimbsFrom(Tail(elems), depth + 1)

ClimbsAboveStart(s) == Len(s) > 0 /\ s[1] # "/" /\ ClimbsFrom(SplitSlash(s), 0)

NormalizeReturned == pathRes.fn = "normalizePath"
NormalizeAccepted == NormalizeReturned /\ pathRes.ret.err = "nil"

\* C6: normalize(p) either fails or returns a string that begins with "/",
\* contains no "//" and has no segment equal to "." or ".."
Cex_C6_NormalizeResultCanonical ==
    NormalizeAccepted =>
        /\ Len(pathRes.ret.path) > 0 /\ pathRes.ret.path[1] = "/"
        /\ ~HasDoubleSlash(pathRes.ret.path)
        /\ ~HasSegment(pathRes.ret.path, Dot)
        /\ ~HasSegment(pathRes.ret.path, DotDot)

\* C7 as stated: normalize yields Invalid for every input that contains a
\* ".." segment or an empty segment ("//")
Cex_C7_DotDotInputInvalid ==
    (NormalizeReturned /\ (HasSegment(pathIn, DotDot) \/ HasDoubleSlash(pathIn)))
        => pathRes.ret.err # "nil"

\* C7 amended: normalize yields Invalid for every relative input whose ".."
\* segments climb above its start, and no accepted result contains a ".."
\* segment or an empty segment (the other ".." and "//" are resolved)
Thm_C7_ClimbingInputInvalid ==
    NormalizeReturned =>
        /\ ClimbsAboveStart(pathIn) => pathRes.ret.err # "nil"
        /\ pathRes.ret.err = "nil" =>
              /\ ~HasSegment(pathRes.ret.path, DotDot)
              /\ ~HasDoubleSlash(pathRes.ret.path)

\* "../a" climbs above its start and is refused
Wit_C7_ClimbingInputInvalid ==
    /\ NormalizeReturned
    /\ pathIn = <<".", ".", "/", "a">>
    /\ pathRes.ret.err # "nil"

\* C8: normalize of the empty string returns the root path "/"
Cex_C8_EmptyIsRoot ==
    (NormalizeReturned /\ pathIn = <<>>)
        => (pathRes.ret.err = "nil" /\ pathRes.ret.path = <<"/">>)

\* C9: for non-empty p, ContainsValidDir(p) is false exactly when p has a
\* segment equal to "." or ".." or an empty segment; one trailing "/" and
\* names that merely contain dots are accepted
Thm_C9_ContainsValidDirExact ==
    (pathRes.fn = "ContainsValidDir" /\ Len(pathIn) > 0)
        => (pathRes.ret = "false" <=> HasBadSegment(pathIn))

\* "/.../" is accepted, "/a/.." is refused: witnessed by the first
Wit_C9_ContainsValidDirExact ==
    /\ pathRes.fn = "ContainsValidDir"
    /\ pathIn = <<"/", ".", ".", ".", "/">>
    /\ pathRes.ret = "true"

----------------------------------------------------------------------------
(* DirFs: a native directory as filesystem *)

DirFs_CanRead(d, abspath) == TRUE

DirFs_CanWrite(d, abspath) == ~d.Readonly

\* the test of IntoAbsPath on the joined path; realPath[:len(d.Root)] of
\* a shorter realPath is a slice out of range: panic
CheckRealPath(d, realPath) ==
    IF ~ContainsValidDir(realPath) THEN [err |-> "invalid path", path |-> <<>>]
    ELSE IF Len(realPath) < Len(d.Root) THEN [err |-> "panic", path |-> <<>>]
    ELSE IF Prefix(realPath, Len(d.Root)) # d.Root THEN [err |-> "invalid path", path |-> <<>>]
    ELSE [err |-> "nil", path |-> realPath]

\* a root written with a trailing slash loses it in the join; it is put back
RestoreRootSlash(d, realPath) ==
    IF Len(realPath) = Len(d.Root) - 1 THEN realPath \o <<"/">> ELSE realPath

IntoAbsPath(d, path) == CheckRealPath(d, RestoreRootSlash(d, ToSlash(Join(d.Root, path))))

\* one call into the host's os package with the host paths it is given
Sys(fn, paths) == [fn |-> fn, paths |-> paths]

\* the result of a DirFs operation: abs are the results of IntoAbsPath it
\* used, sys the host calls it made
DirResult(op, args, err, abs, sys) ==
    [op |-> op, args |-> args, err |-> err, abs |-> abs, sys |-> sys]

\* the host call either succeeds or fails
HostCall(op, args, abs, calls) == {DirResult(op, args, e, abs, calls) : e \in {"nil", "os error"}}

\* operations of the shape: IntoAbsPath (result a), permission test, one host call
DirOnePathAt(d, op, path, writes, fn, a) ==
    IF a.err # "nil" THEN {DirResult(op, <<path>>, a.err, <<>>, <<>>)}
    ELSE IF (IF writes THEN ~DirFs_CanWrite(d, a.path) ELSE ~DirFs_CanRead(d, a.path))
    THEN {DirResult(op, <<path>>, "ErrForbidden", <<a.path>>, <<>>)}
    ELSE HostCall(op, <<path>>, <<a.path>>, <<Sys(fn, <<a.path>>)>>)

DirOnePath(d, op, path, writes, fn) == DirOnePathAt(d, op, path, writes, fn, IntoAbsPath(d, path))

statOfRoot(d, op, path) == HostCall(op, <<path>>, <<>>, <<Sys("os.Stat", <<d.Root>>)>>)

DirFs_ListResults(d, path) == DirOnePath(d, "List", path, FALSE, "os.ReadDir")

DirFs_StatResults(d, path) ==
    IF path = <<"/">> THEN statOfRoot(d, "Stat", path)
    ELSE DirOnePath(d, "Stat", path, FALSE, "os.Stat")

DirFs_LstatResults(d, path) ==
    IF path = <<"/">> THEN statOfRoot(d, "Lstat", path)
    ELSE DirOnePath(d, "Lstat", path, FALSE, "os.Lstat")

\* what os.Readlink can return: the target stored in a symbolic link of the host
LinkTargets == {<<"/", "r", "/", "a">>, <<"/", "a">>, <<"a">>, <<"/">>}

\* after os.Readlink returned res: the read test on res, then os.Stat(res)
ReadLinkTarget(d, path, abspath, res) ==
    IF ~DirFs_CanRead(d, res)
    THEN {DirResult("ReadLink", <<path>>, "ErrForbidden", <<abspath>>,
                    <<Sys("os.Readlink", <<abspath>>)>>)}
    ELSE HostCall("ReadLink", <<path>>, <<abspath>>,
                  <<Sys("os.Readlink", <<abspath>>), Sys("os.Stat", <<res>>)>>)

ReadLinkAt(d, path, a) ==
    IF a.err # "nil" THEN {DirResult("ReadLink", <<path>>, a.err, <<>>, <<>>)}
    ELSE IF ~DirFs_CanRead(d, a.path)
    THEN {DirResult("ReadLink", <<path>>, "ErrForbidden", <<a.path>>, <<>>)}
    ELSE {DirResult("ReadLink", <<path>>, "os error", <<a.path>>, <<Sys("os.Readlink", <<a.path>>)>>)}
         \cup UNION {ReadLinkTarget(d, path, a.path, res) : res \in LinkTargets}

DirFs_ReadLinkResults(d, path) ==
    IF path = <<"/">> THEN statOfRoot(d, "ReadLink", path)
    ELSE ReadLinkAt(d, path, IntoAbsPath(d, path))

DirFs_ReadResults(d, path) == DirOnePath(d, "Read", path, FALSE, "os.Open")

DirFs_WriteResults(d, path) == DirOnePath(d, "Write", path, TRUE, "os.OpenFile")

DirFs_MkdirResults(d, path) == DirOnePath(d, "Mkdir", path, TRUE, "os.Mkdir")

\* the host calls SetStat makes for the flags, in the order of the code
SetStatCalls(flags, abspath) ==
    (IF "Size" \in flags THEN <<Sys("os.Truncate", <<abspath>>)>> ELSE <<>>)
    \o (IF "Permissions" \in flags THEN <<Sys("os.Chmod", <<abspath>>)>> ELSE <<>>)
    \o (IF "UidGid" \in flags THEN <<Sys("os.Chown", <<abspath>>)>> ELSE <<>>)
    \o (IF "Acmodtime" \in flags THEN <<Sys("os.Chtimes", <<abspath>>)>> ELSE <<>>)

FileAttrFlags == {"Size", "Permissions", "UidGid", "Acmodtime"}

\* all calls succeed, or the k-th call fails and ends SetStat
SetStatOutcomes(path, abspath, calls) ==
    {DirResult("SetStat", <<path>>, "nil", <<abspath>>, calls)}
    \cup {DirResult("SetStat", <<path>>, "os error", <<abspath>>, SubSeq(calls, 1, k))
          : k \in 1..Len(calls)}

SetStatAt(d, path, flags, a) ==
    IF a.err # "nil" THEN {DirResult("SetStat", <<path>>, a.err, <<>>, <<>>)}
    ELSE IF ~DirFs_CanWrite(d, a.path)
    THEN {DirResult("SetStat", <<path>>, "ErrForbidden", <<a.path>>, <<>>)}
    ELSE SetStatOutcomes(path, a.path, SetStatCalls(flags, a.path))

DirFs_SetStatResults(d, path, flags) == SetStatAt(d, path, flags, IntoAbsPath(d, path))

\* Rmdir and Rm: os.Stat, the directory test, os.Remove
DirRemoveAt(d, op, path, notThis, a) ==
    IF a.err # "nil" THEN {DirResult(op, <<path>>, a.err, <<>>, <<>>)}
    ELSE IF ~DirFs_CanWrite(d, a.path)
    THEN {DirResult(op, <<path>>, "ErrForbidden", <<a.path>>, <<>>)}
    ELSE {DirResult(op, <<path>>, e, <<a.path>>, <<Sys("os.Stat", <<a.path>>)>>)
          : e \in {"os error", notThis}}
         \cup HostCall(op, <<path>>, <<a.path>>,
                       <<Sys("os.Stat", <<a.path>>), Sys("os.Remove", <<a.path>>)>>)

DirRemove(d, op, path, notThis) == DirRemoveAt(d, op, path, notThis, IntoAbsPath(d, path))

DirFs_RmdirResults(d, path) == DirRemove(d, "Rmdir", path, "not a directory")

DirFs_RmResults(d, path) == DirRemove(d, "Rm", path, "is a directory")

\* Rename, Link, Symlink: both paths through IntoAbsPath (results aSrc,
\* aDst), then the permission test on both, then one host call
DirTwoPathsAt(d, op, src, dst, srcWrites, fn, aSrc, aDst) ==
    IF aSrc.err # "nil" THEN {DirResult(op, <<src, dst>>, aSrc.err, <<>>, <<>>)}
    ELSE IF aDst.err # "nil" THEN {DirResult(op, <<src, dst>>, aDst.err, <<aSrc.path>>, <<>>)}
    ELSE IF (IF srcWrites THEN ~DirFs_CanWrite(d, aSrc.path) ELSE ~DirFs_CanRead(d, aSrc.path))
            \/ ~DirFs_CanWrite(d, aDst.path)
    THEN {DirResult(op, <<src, dst>>, "ErrForbidden", <<aSrc.path, aDst.path>>, <<>>)}
    ELSE HostCall(op, <<src, dst>>, <<aSrc.path, aDst.path>>, <<Sys(fn, <<aSrc.path, aDst.path>>)>>)

DirTwoPaths(d, op, src, dst, srcWrites, fn) ==
    DirTwoPathsAt(d, op, src, dst, srcWrites, fn, IntoAbsPath(d, src), IntoAbsPath(d, dst))

DirFs_RenameResults(d, src, dst) == DirTwoPaths(d, "Rename", src, dst, TRUE, "os.Rename")

DirFs_LinkResults(d, src, dst) == DirTwoPaths(d, "Link", src, dst, FALSE, "os.Link")

DirFs_SymlinkResults(d, src, dst) == DirTwoPaths(d, "Symlink", src, dst, FALSE, "os.Symlink")

DirPaths == StringsUpTo(MaxDirLen)
PairPaths == StringsUpTo(MaxPairLen)

DirIdle == dirRes.op = "none"
DirUnchanged == UNCHANGED <<pathIn, pathRes, dirFS, policy, pwRes, lsFS, lsIter, lsPage, unionVars, moveVars, fabVars, svcVars>>

DirFs_List == DirIdle /\ DirUnchanged /\ \E p \in DirPaths : dirRes' \in DirFs_ListResults(dirFS, p)
DirFs_Stat == DirIdle /\ DirUnchanged /\ \E p \in DirPaths : dirRes' \in DirFs_StatResults(dirFS, p)
DirFs_Lstat == DirIdle /\ DirUnchanged /\ \E p \in DirPaths : dirRes' \in DirFs_LstatResults(dirFS, p)
DirFs_ReadLink == DirIdle /\ DirUnchanged /\ \E p \in DirPaths : dirRes' \in DirFs_ReadLinkResults(dirFS, p)
DirFs_Read == DirIdle /\ DirUnchanged /\ \E p \in DirPaths : dirRes' \in DirFs_ReadResults(dirFS, p)
DirFs_Write == DirIdle /\ DirUnchanged /\ \E p \in DirPaths : dirRes' \in DirFs_WriteResults(dirFS, p)
DirFs_SetStat ==
    DirIdle /\ DirUnchanged
    /\ \E p \in DirPaths, flags \in SUBSET FileAttrFlags : dirRes' \in DirFs_SetStatResults(dirFS, p, flags)
DirFs_Rename ==
    DirIdle /\ DirUnchanged /\ \E s \in PairPaths, t \in PairPaths : dirRes' \in DirFs_RenameResults(dirFS, s, t)
DirFs_Rmdir == DirIdle /\ DirUnchanged /\ \E p \in DirPaths : dirRes' \in DirFs_RmdirResults(dirFS, p)
DirFs_Rm == DirIdle /\ DirUnchanged /\ \E p \in DirPaths : dirRes' \in DirFs_RmResults(dirFS, p)
DirFs_Mkdir == DirIdle /\ DirUnchanged /\ \E p \in DirPaths : dirRes' \in DirFs_MkdirResults(dirFS, p)
DirFs_Link ==
    DirIdle /\ DirUnchanged /\ \E s \in PairPaths, t \in PairPaths : dirRes' \in DirFs_LinkResults(dirFS, s, t)
DirFs_Symlink ==
    DirIdle /\ DirUnchanged /\ \E s \in PairPaths, t \in PairPaths : dirRes' \in DirFs_SymlinkResults(dirFS, s, t)

\* the roots a mount is configured with: plain, with a trailing slash, nested
DirRoots == {<<"/", "r">>, <<"/", "r", "/">>, <<"/", "r", "/", "a">>}

InitDir ==
    /\ dirFS \in [Root : DirRoots, Readonly : BOOLEAN]
    /\ dirRes = NoDirCall
    /\ pathIn = <<>> /\ pathRes = NoPathCall
    /\ policy = NoPolicy /\ pwRes = NoPwCall
    /\ lsFS = NoLsFS /\ lsIter = NoLsIter /\ lsPage = NoLsPage
    /\ UnionIdle

NextDir ==
    \/ DirFs_List \/ DirFs_Stat \/ DirFs_Lstat \/ DirFs_ReadLink \/ DirFs_Read
    \/ DirFs_Write \/ DirFs_SetStat \/ DirFs_Rename \/ DirFs_Rmdir \/ DirFs_Rm
    \/ DirFs_Mkdir \/ DirFs_Link \/ DirFs_Symlink

SpecDir == InitDir /\ [][NextDir]_vars

----------------------------------------------------------------------------
(* Properties of DirFs *)

\* C10: for every virtual path a DirFs accepts, IntoAbsPath begins with the
\* root, and every DirFs operation touches the host only at such a path
Cex_C10_HostAccessUnderRoot ==
    dirRes.op # "none" =>
        /\ \A i \in DOMAIN dirRes.abs : HasPrefix(dirRes.abs[i], dirFS.Root)
        /\ \A i \in DOMAIN dirRes.sys :
              \A j \in DOMAIN dirRes.sys[i].paths : HasPrefix(dirRes.sys[i].paths[j], dirFS.Root)

----------------------------------------------------------------------------
(* PermWrapperFS: the policy and the guarded operations *)

\* A compiled regular expression, given by its pattern: ".*", "^pat$" or "^pat"
RegexpAll == [kind |-> "all", pat |-> <<>>]
RegexpExact(pat) == [kind |-> "exact", pat |-> pat]
RegexpPrefix(pat) == [kind |-> "prefix", pat |-> pat]

\* regexp.MatchString
MatchString(r, path) ==
    CASE r.kind = "all" -> TRUE
      [] r.kind = "exact" -> path = r.pat
      [] r.kind = "prefix" -> HasPrefix(path, r.pat)

CanRead(p, path) == \E i \in DOMAIN p.CanReadRegexp : MatchString(p.CanReadRegexp[i], path)

CanWrite(p, path) == \E i \in DOMAIN p.CanWriteRegexp : MatchString(p.CanWriteRegexp[i], path)

ShouldHide(p, path) == \E i \in DOMAIN p.ShouldHideRegexp : MatchString(p.ShouldHideRegexp[i], path)

\* what an operation of the inner filesystem can answer
InnerErrors == {"nil", "ErrForbidden", "inner error"}

\* the wrapper hands the call to Inner and returns what Inner returns
PassToInner(op, args) ==
    {[op |-> op, args |-> args, err |-> e, inner |-> <<[op |-> op, args |-> args]>>] : e \in InnerErrors}

Denied(op, args) == {[op |-> op, args |-> args, err |-> "ErrForbidden", inner |-> <<>>]}

PermWrapperFS_ListResults(p, path) ==
    IF ~CanRead(p, path) \/ ShouldHide(p, path) THEN Denied("List", <<path>>)
    ELSE PassToInner("List", <<path>>)

PermWrapperFS_LstatResults(p, path) ==
    IF CanRead(p, path) /\ ~ShouldHide(p, path) THEN PassToInner("Lstat", <<path>>)
    ELSE Denied("Lstat", <<path>>)

PermWrapperFS_StatResults(p, path) ==
    IF CanRead(p, path) /\ ~ShouldHide(p, path) THEN PassToInner("Stat", <<path>>)
    ELSE Denied("Stat", <<path>>)

PermWrapperFS_ReadLinkResults(p, path) ==
    IF CanRead(p, path) /\ ~ShouldHide(p, path) THEN PassToInner("ReadLink", <<path>>)
    ELSE Denied("ReadLink", <<path>>)

PermWrapperFS_ReadResults(p, path) ==
    IF CanRead(p, path) /\ ~ShouldHide(p, path) THEN PassToInner("Read", <<path>>)
    ELSE Denied("Read", <<path>>)

PermWrapperFS_WriteResults(p, path) ==
    IF CanWrite(p, path) /\ ~ShouldHide(p, path) THEN PassToInner("Write", <<path>>)
    ELSE Denied("Write", <<path>>)

PermWrapperFS_SetStatResults(p, path) ==
    IF CanWrite(p, path) /\ ~ShouldHide(p, path) THEN PassToInner("SetStat", <<path>>)
    ELSE Denied("SetStat", <<path>>)

\* mutant: the destination is not tested against ShouldHide
PermWrapperFS_RenameResults_DstNotHidden(p, src, dst) ==
    IF CanWrite(p, src) /\ CanWrite(p, dst) /\ ~ShouldHide(p, src)
    THEN PassToInner("Rename", <<src, dst>>)
    ELSE Denied("Rename", <<src, dst>>)

PermWrapperFS_RenameResults(p, src, dst) ==
    IF CanWrite(p, src) /\ CanWrite(p, dst) /\ ~ShouldHide(p, src) /\ ~ShouldHide(p, dst)
    THEN PassToInner("Rename", <<src, dst>>)
    ELSE Denied("Rename", <<src, dst>>)

PermWrapperFS_RmdirResults(p, path) ==
    IF CanWrite(p, path) /\ ~ShouldHide(p, path) THEN PassToInner("Rmdir", <<path>>)
    ELSE Denied("Rmdir", <<path>>)

PermWrapperFS_RmResults(p, path) ==
    IF CanWrite(p, path) /\ ~ShouldHide(p, path) THEN PassToInner("Rm", <<path>>)
    ELSE Denied("Rm", <<path>>)

PermWrapperFS_MkdirResults(p, path) ==
    IF CanWrite(p, path) /\ ~ShouldHide(p, path) THEN PassToInner("Mkdir", <<path>>)
    ELSE Denied("Mkdir", <<path>>)

PermWrapperFS_LinkResults(p, src, dst) ==
    IF CanRead(p, src) /\ CanWrite(p, dst) /\ ~ShouldHide(p, src) /\ ~ShouldHide(p, dst)
    THEN PassToInner("Link", <<src, dst>>)
    ELSE Denied("Link", <<src, dst>>)

\* mutant: the source is tested for write instead of read permission
PermWrapperFS_SymlinkResults_SrcWrite(p, src, dst) ==
    IF CanWrite(p, src) /\ CanWrite(p, dst) /\ ~ShouldHide(p, src) /\ ~ShouldHide(p, dst)
    THEN PassToInner("Symlink", <<src, dst>>)
    ELSE Denied("Symlink", <<src, dst>>)

PermWrapperFS_SymlinkResults(p, src, dst) ==
    IF CanRead(p, src) /\ CanWrite(p, dst) /\ ~ShouldHide(p, src) /\ ~ShouldHide(p, dst)
    THEN PassToInner("Symlink", <<src, dst>>)
    ELSE Denied("Symlink", <<src, dst>>)

\* the virtual paths the operations are called with
PermPaths == {<<"/">>, <<"/", "a">>, <<"/", "a", "/", "r">>}

\* the expressions a policy list is made of: ".*" and "^/a"
PolicyRegexps == {RegexpAll, RegexpPrefix(<<"/", "a">>)}

PolicyLists == UNION {[1..n -> PolicyRegexps] : n \in 0..MaxRegs}

PwIdle == pwRes.op = "none"
PwUnchanged == UNCHANGED <<pathIn, pathRes, dirFS, dirRes, policy, lsFS, lsIter, lsPage, unionVars, moveVars, fabVars, svcVars>>

PermWrapperFS_List == PwIdle /\ PwUnchanged /\ \E x \in PermPaths : pwRes' \in PermWrapperFS_ListResults(policy, x)
PermWrapperFS_Lstat == PwIdle /\ PwUnchanged /\ \E x \in PermPaths : pwRes' \in PermWrapperFS_LstatResults(policy, x)
PermWrapperFS_Stat == PwIdle /\ PwUnchanged /\ \E x \in PermPaths : pwRes' \in PermWrapperFS_StatResults(policy, x)
PermWrapperFS_ReadLink ==
    PwIdle /\ PwUnchanged /\ \E x \in PermPaths : pwRes' \in PermWrapperFS_ReadLinkResults(policy, x)
PermWrapperFS_Read == PwIdle /\ PwUnchanged /\ \E x \in PermPaths : pwRes' \in PermWrapperFS_ReadResults(policy, x)
PermWrapperFS_Write == PwIdle /\ PwUnchanged /\ \E x \in PermPaths : pwRes' \in PermWrapperFS_WriteResults(policy, x)
PermWrapperFS_SetStat ==
    PwIdle /\ PwUnchanged /\ \E x \in PermPaths : pwRes' \in PermWrapperFS_SetStatResults(policy, x)
PermWrapperFS_Rename ==
    PwIdle /\ PwUnchanged
    /\ \E x \in PermPaths, y \in PermPaths : pwRes' \in PermWrapperFS_RenameResults(policy, x, y)
PermWrapperFS_Rmdir == PwIdle /\ PwUnchanged /\ \E x \in PermPaths : pwRes' \in PermWrapperFS_RmdirResults(policy, x)
PermWrapperFS_Rm == PwIdle /\ PwUnchanged /\ \E x \in PermPaths : pwRes' \in PermWrapperFS_RmResults(policy, x)
PermWrapperFS_Mkdir == PwIdle /\ PwUnchanged /\ \E x \in PermPaths : pwRes' \in PermWrapperFS_MkdirResults(policy, x)
PermWrapperFS_Link ==
    PwIdle /\ PwUnchanged
    /\ \E x \in PermPaths, y \in PermPaths : pwRes' \in PermWrapperFS_LinkResults(policy, x, y)
PermWrapperFS_Symlink ==
    PwIdle /\ PwUnchanged
    /\ \E x \in PermPaths, y \in PermPaths : pwRes' \in PermWrapperFS_SymlinkResults(policy, x, y)

InitPerm ==
    /\ policy \in [CanReadRegexp : PolicyLists, CanWriteRegexp : PolicyLists,
                   ShouldHideRegexp : PolicyLists]
    /\ pwRes = NoPwCall
    /\ pathIn = <<>> /\ pathRes = NoPathCall
    /\ dirFS = NoDirFS /\ dirRes = NoDirCall
    /\ lsFS = NoLsFS /\ lsIter = NoLsIter /\ lsPage = NoLsPage
    /\ UnionIdle

NextPerm ==
    \/ PermWrapperFS_List \/ PermWrapperFS_Lstat \/ PermWrapperFS_Stat \/ PermWrapperFS_ReadLink
    \/ PermWrapperFS_Read \/ PermWrapperFS_Write \/ PermWrapperFS_SetStat \/ PermWrapperFS_Rename
    \/ PermWrapperFS_Rmdir \/ PermWrapperFS_Rm \/ PermWrapperFS_Mkdir \/ PermWrapperFS_Link
    \/ PermWrapperFS_Symlink

SpecPerm == InitPerm /\ [][NextPerm]_vars

----------------------------------------------------------------------------
(* Properties of the guarded operations *)

PwCalled == pwRes.op # "none"
PwForbiddenWithoutInner == pwRes.err = "ErrForbidden" /\ pwRes.inner = <<>>

\* C1: every operation on a path that matches shouldHide (for rename, link
\* and symlink: on either side) fails with Forbidden and the inner filesystem
\* is never called, whatever canRead and canWrite say
Thm_C1_HiddenPathForbidden ==
    PwCalled =>
        ((\E i \in DOMAIN pwRes.args : ShouldHide(policy, pwRes.args[i])) => PwForbiddenWithoutInner)

\* a rename whose destination alone is hidden, both sides being writable and readable
Wit_C1_HiddenPathForbidden ==
    /\ PwCalled /\ pwRes.op = "Rename"
    /\ ~ShouldHide(policy, pwRes.args[1]) /\ ShouldHide(policy, pwRes.args[2])
    /\ \A i \in 1..2 : CanWrite(policy, pwRes.args[i]) /\ CanRead(policy, pwRes.args[i])
    /\ PwForbiddenWithoutInner

ReadOps == {"List", "Stat", "Lstat", "ReadLink", "Read"}
WriteOps == {"Write", "SetStat", "Rmdir", "Rm", "Mkdir"}

\* the permission the claim names for each operation
PolicyNeeds(op, args) ==
    CASE op \in ReadOps -> CanRead(policy, args[1])
      [] op \in WriteOps -> CanWrite(policy, args[1])
      [] op = "Rename" -> CanWrite(policy, args[1]) /\ CanWrite(policy, args[2])
      [] op \in {"Link", "Symlink"} -> CanRead(policy, args[1]) /\ CanWrite(policy, args[2])

\* C2: the inner filesystem is called only when the policy allows the
\* operation (read operations need canRead, write operations canWrite,
\* rename canWrite on both sides, link and symlink canRead(src) and
\* canWrite(dst)); otherwise the result is Forbidden without any inner call
Thm_C2_InnerOnlyWhenAllowed ==
    PwCalled =>
        /\ pwRes.inner # <<>> =>
              /\ PolicyNeeds(pwRes.op, pwRes.args)
              /\ pwRes.inner = <<[op |-> pwRes.op, args |-> pwRes.args]>>
        /\ pwRes.inner = <<>> => pwRes.err = "ErrForbidden"
        /\ ~PolicyNeeds(pwRes.op, pwRes.args) => PwForbiddenWithoutInner

\* a symlink whose source is writable but not readable is refused
Wit_C2_InnerOnlyWhenAllowed ==
    /\ PwCalled /\ pwRes.op = "Symlink"
    /\ CanWrite(policy, pwRes.args[1]) /\ ~CanRead(policy, pwRes.args[1])
    /\ CanWrite(policy, pwRes.args[2])
    /\ \A i \in 1..2 : ~ShouldHide(policy, pwRes.args[i])
    /\ PwForbiddenWithoutInner

----------------------------------------------------------------------------
(* Directory listings: DirFs, CombinedFS and the filtered listing of PermWrapperFS *)

min(a, b) == IF a < b THEN a ELSE b

max(a, b) == IF a < b THEN b ELSE a

contains(array, element) == element \in array

\* byte order of the characters
CharRank(c) == CASE c = "." -> 46 [] c = "/" -> 47 [] c = "a" -> 97 [] c = "r" -> 114

RECURSIVE LexLess(_, _)
LexLess(a, b) ==
    IF Len(b) = 0 THEN FALSE
    ELSE IF Len(a) = 0 THEN TRUE
    ELSE IF a[1] # b[1] THEN CharRank(a[1]) < CharRank(b[1])
    ELSE LexLess(Tail(a), Tail(b))

\* sort.Strings of the keys of a map (also the order of os.ReadDir)
RECURSIVE SortStrings(_)
SortStrings(S) ==
    IF S = {} THEN <<>>
    ELSE LET least == CHOOSE x \in S : \A y \in S \ {x} : LexLess(x, y)
         IN  <<least>> \o SortStrings(S \ {least})

FillResult(n, err, ents) == [n |-> n, err |-> err, ents |-> ents]

\* the iterator returned by DirFs.List over the cached fileinfos
DirFs_ListAt(fileinfos, lsLen, offset) ==
    IF offset >= Len(fileinfos) THEN FillResult(0, "EOF", <<>>)
    ELSE LET n == min(lsLen, Len(fileinfos) - offset)
         IN  FillResult(n, IF n < lsLen THEN "EOF" ELSE "nil", SubSeq(fileinfos, offset + 1, offset + n))

\* the body of the CombinedFS iterator after the copy of remaining names:
\* Stat("/") of each copied mount, then EOF iff the end was reached
CombinedFS_Copied(topDirs, statFails, offset, remaining, copied) ==
    IF \E i \in DOMAIN copied : copied[i] \in statFails
    THEN FillResult(0, "stat error", <<>>)
    ELSE IF offset + remaining = Len(topDirs)
    THEN FillResult(remaining, "EOF", copied)
    ELSE FillResult(remaining, "nil", copied)

CombinedFS_Remaining(topDirs, statFails, offset, remaining) ==
    CombinedFS_Copied(topDirs, statFails, offset, remaining,
                      SubSeq(topDirs, offset + 1, offset + remaining))

\* the iterator returned by CombinedFS.List("/"); statFails are the mounts
\* whose Stat("/") returns an error; fsLen is len(fs) of the caller's buffer
CombinedFS_ListAt(topDirs, statFails, fsLen, offset) ==
    IF offset >= Len(topDirs) THEN FillResult(0, "EOF", <<>>)
    ELSE CombinedFS_Remaining(topDirs, statFails, offset,
                              min(Len(topDirs) - offset, fsLen - offset))

\* the iterator of the filesystem below the wrapper
InnerListAt(fs, len, offset) ==
    IF fs.inner = "DirFs" THEN DirFs_ListAt(fs.entries, len, offset)
    ELSE CombinedFS_ListAt(fs.entries, fs.statFails, len, offset)

Hidden(fs, p, name) == ShouldHide(p, Join(fs.path, name))

SeekResult(err, realOffset, st) == [err |-> err, realOffset |-> realOffset, st |-> st]

\* first loop of the filtered iterator: computes the inner offset of the
\* visible offset, probing one entry at a time where nothing is known yet.
\* st is the closure state {idxToHide, maxOffsetYet}; append keeps
\* duplicates in idxToHide, which only contains() ever reads.
RECURSIVE PermList_Seek(_, _, _, _, _, _)

\* the branch i >= maxOffsetYet: st1 is the state after maxOffsetYet += 1,
\* tmp the result of the inner iterator for a buffer of one entry
PermList_Probe(fs, p, offset, i, realOffset, st1, tmp) ==
    IF tmp.err # "nil" THEN SeekResult(tmp.err, realOffset, st1)
    ELSE IF tmp.n = 0 THEN SeekResult("ErrUnexpectedEOF", realOffset, st1)
    ELSE IF tmp.n < 0 THEN SeekResult("panic", realOffset, st1)  \* tmp[0] is nil
    ELSE IF Hidden(fs, p, tmp.ents[1])
    THEN PermList_Seek(fs, p, offset, i, realOffset + 1,
                       [st1 EXCEPT !.idxToHide = @ \cup {realOffset}])
    ELSE PermList_Seek(fs, p, offset, i + 1, realOffset + 1, st1)

PermList_Seek(fs, p, offset, i, realOffset, st) ==
    IF ~(i < offset) THEN SeekResult("nil", realOffset, st)
    ELSE IF i < st.maxOffsetYet /\ ~contains(st.idxToHide, realOffset)
    THEN PermList_Seek(fs, p, offset, i + 1, realOffset + 1, st)
    ELSE IF i >= st.maxOffsetYet
    THEN PermList_Probe(fs, p, offset, i, realOffset,
                        [st EXCEPT !.maxOffsetYet = @ + 1], InnerListAt(fs, 1, realOffset))
    ELSE PermList_Seek(fs, p, offset, i, realOffset + 1, st)

\* mutant: the batch is copied without the ShouldHide test
Viewable_Unfiltered(fs, p, raw) == raw

\* the entries of a batch that are copied into ls
RECURSIVE Viewable(_, _, _)
Viewable(fs, p, raw) ==
    IF Len(raw) = 0 THEN <<>>
    ELSE IF Hidden(fs, p, Head(raw)) THEN Viewable(fs, p, Tail(raw))
    ELSE <<Head(raw)>> \o Viewable(fs, p, Tail(raw))

EmitResult(n, err, ents, st) == [n |-> n, err |-> err, ents |-> ents, st |-> st]

\* the inner offsets of the entries of a batch that match shouldHide
HiddenIdx(fs, p, realOffset, raw) ==
    {realOffset + (k - 1) : k \in {x \in DOMAIN raw : Hidden(fs, p, raw[x])}}

\* the closure state after the hidden offsets of a batch were noted
NoteHidden(st, hiddenIdx) ==
    IF hiddenIdx = {} THEN st
    ELSE [st EXCEPT !.idxToHide = @ \cup hiddenIdx,
                    !.maxOffsetYet = max(CHOOSE m \in hiddenIdx : \A h \in hiddenIdx : h <= m, @)]

\* second loop of the filtered iterator: pulls inner batches until one has
\* a viewable entry or the inner listing ends.  A batch of no entries
\* without EOF leaves the loop where it was, it runs forever ("hang");
\* tried holds the inner offsets already asked for in this call.
RECURSIVE PermList_Emit(_, _, _, _, _, _)

\* the end of one round: ls are the viewable entries of the batch raw
PermList_Round(fs, p, lsLen, realOffset, st1, tried, raw, ls) ==
    IF raw.err = "EOF" THEN EmitResult(Len(ls), "EOF", ls, st1)
    ELSE IF Len(ls) # 0 THEN EmitResult(Len(ls), "nil", ls, st1)
    ELSE IF (realOffset + raw.n) \in (tried \cup {realOffset}) THEN EmitResult(0, "hang", <<>>, st1)
    ELSE PermList_Emit(fs, p, lsLen, realOffset + raw.n, st1, tried \cup {realOffset})

PermList_Batch(fs, p, lsLen, realOffset, st, tried, raw) ==
    IF raw.err \notin {"nil", "EOF"} THEN EmitResult(0, raw.err, <<>>, st)
    ELSE PermList_Round(fs, p, lsLen, realOffset,
                        NoteHidden(st, HiddenIdx(fs, p, realOffset, raw.ents)),
                        tried, raw, Viewable(fs, p, raw.ents))

PermList_Emit(fs, p, lsLen, realOffset, st, tried) ==
    PermList_Batch(fs, p, lsLen, realOffset, st, tried, InnerListAt(fs, lsLen, realOffset))

PermList_AfterSeek(fs, p, lsLen, sought) ==
    IF sought.err # "nil" THEN EmitResult(0, sought.err, <<>>, sought.st)
    ELSE PermList_Emit(fs, p, lsLen, sought.realOffset, sought.st, {})

\* one call of the iterator returned by PermWrapperFS.List
PermWrapperFS_ListAt(fs, p, st, lsLen, offset) ==
    PermList_AfterSeek(fs, p, lsLen, PermList_Seek(fs, p, offset, 0, 0, st))

Unfiltered(r, st) == EmitResult(r.n, r.err, r.ents, st)

\* one call of the iterator List returned for fs: the inner iterator itself
\* when there is no wrapper or the wrapper has no ShouldHide expression
ListAt(fs, p, st, lsLen, offset) ==
    IF fs.wrapped /\ Len(p.ShouldHideRegexp) # 0
    THEN PermWrapperFS_ListAt(fs, p, st, lsLen, offset)
    ELSE Unfiltered(InnerListAt(fs, lsLen, offset), st)

FreshIter == [open |-> TRUE, idxToHide |-> {}, maxOffsetYet |-> 0]

\* the caller's view: seq tells that every call so far continued at the
\* previous offset plus the previous count, starting at 0; acc is what
\* these calls returned; done tells that this run of calls has ended, with
\* EOF, with an error or with a negative count
FreshPage == [seq |-> TRUE, next |-> 0, acc |-> <<>>, done |-> FALSE, last |-> [buf |-> 0]]

\* List(path) succeeded and returned a new iterator
OpenList ==
    /\ lsFS.kind = "listing"
    /\ lsIter' = FreshIter
    /\ lsPage' = FreshPage
    /\ UNCHANGED <<pathIn, pathRes, dirFS, dirRes, policy, pwRes, lsFS, unionVars, moveVars, fabVars, svcVars>>

\* the caller's view after a call returned r; seq tells that the call
\* continued the run of calls
Paged(lsLen, offset, r, seq, got) ==
    [seq |-> seq,
     next |-> IF seq THEN offset + r.n ELSE 0,
     acc |-> IF seq THEN lsPage.acc \o got ELSE <<>>,
     done |-> seq /\ (r.err # "nil" \/ r.n < 0),
     last |-> [buf |-> lsLen, offset |-> offset, n |-> r.n, err |-> r.err, ents |-> got]]

Returned(lsLen, offset, r) ==
    /\ lsIter' = [r.st EXCEPT !.open = r.err \notin {"panic", "hang"}]
    /\ lsPage' = Paged(lsLen, offset, r,
                       lsPage.seq /\ ~lsPage.done /\ offset = lsPage.next,
                       IF r.n > 0 THEN r.ents ELSE <<>>)

\* the caller hands a buffer of lsLen entries and an offset to the iterator
Fill(lsLen, offset) ==
    /\ lsIter.open
    /\ Returned(lsLen, offset, ListAt(lsFS, policy, lsIter, lsLen, offset))
    /\ UNCHANGED <<pathIn, pathRes, dirFS, dirRes, policy, pwRes, lsFS, unionVars, moveVars, fabVars, svcVars>>

FillCall == \E lsLen \in 1..MaxBuf, offset \in 0..MaxOff : Fill(lsLen, offset)

RECURSIVE Repeat(_, _)
Repeat(c, n) == IF n = 0 THEN <<>> ELSE <<c>> \o Repeat(c, n - 1)

\* the names a directory entry or a mount can have: "a", "aa", "aaa", ...
EntryNames == {Repeat("a", n) : n \in 1..MaxEntries}

ListingPaths == {<<"/">>, <<"/", "r">>}

\* one expression "^path/name$" per name to hide, after an optional
\* expression that matches no entry
HideList(path, names, pad) ==
    LET sorted == SortStrings(names)
    IN  (IF pad THEN <<RegexpExact(<<"/", ".">>)>> ELSE <<>>)
        \o [i \in 1..Len(sorted) |-> RegexpExact(Join(path, sorted[i]))]

InitList ==
    /\ \E inner \in {"DirFs", "CombinedFS"}, wrapped \in BOOLEAN,
          entries \in SUBSET EntryNames, path \in ListingPaths :
          /\ inner = "CombinedFS" => path = <<"/">>
          /\ \E statFails \in SUBSET entries :
                /\ inner = "DirFs" => statFails = {}
                /\ lsFS = [kind |-> "listing", inner |-> inner, wrapped |-> wrapped, path |-> path,
                           entries |-> SortStrings(entries), statFails |-> statFails]
          /\ \E hide \in SUBSET EntryNames, pad \in BOOLEAN :
                /\ ~wrapped => (hide = {} /\ ~pad)
                /\ policy = [CanReadRegexp |-> IF wrapped THEN <<RegexpAll>> ELSE <<>>,
                             CanWriteRegexp |-> <<>>,
                             ShouldHideRegexp |-> HideList(path, hide, pad)]
    /\ lsIter = NoLsIter /\ lsPage = NoLsPage
    /\ pathIn = <<>> /\ pathRes = NoPathCall
    /\ dirFS = NoDirFS /\ dirRes = NoDirCall /\ pwRes = NoPwCall
    /\ UnionIdle

NextList == OpenList \/ FillCall

SpecList == InitList /\ [][NextList]_vars

----------------------------------------------------------------------------
(* Properties of the listings *)

FillReturned == lsPage.last.buf > 0

IsPrefixOf(a, b) == Len(a) <= Len(b) /\ SubSeq(b, 1, Len(a)) = a

\* the inner listing without the entries whose path matches shouldHide
RECURSIVE WithoutHidden(_)
WithoutHidden(names) ==
    IF Len(names) = 0 THEN <<>>
    ELSE IF ShouldHide(policy, Join(lsFS.path, Head(names))) THEN WithoutHidden(Tail(names))
    ELSE <<Head(names)>> \o WithoutHidden(Tail(names))

\* the calls so far started at offset 0 and each continued at the previous
\* offset plus the previous count
PagedFromZero == FillReturned /\ lsPage.seq

\* what such a run of calls must have delivered of the listing want
PagingDelivers(want) ==
    /\ lsPage.last.err \in {"nil", "EOF"}
    /\ lsPage.last.n >= 0 /\ lsPage.last.n <= lsPage.last.buf
    /\ lsPage.last.err = "nil" => lsPage.last.n >= 1
    /\ IsPrefixOf(lsPage.acc, want)
    /\ lsPage.last.err = "EOF" => lsPage.acc = want

FilteredIterator == lsFS.wrapped /\ Len(policy.ShouldHideRegexp) # 0

\* C3: paging a filtered listing of a stable directory from offset 0 with
\* any buffer size >= 1 returns the inner listing without the hidden
\* entries, in order, each once, and ends with EOF
Cex_C3_FilteredPagingComplete ==
    (PagedFromZero /\ FilteredIterator /\ lsFS.statFails = {})
        => PagingDelivers(WithoutHidden(lsFS.entries))

\* C4: no call to a filtered-listing iterator, whatever the offset, the
\* buffer size and the earlier calls, returns an entry whose path
\* join(listingPath, name) matches shouldHide
Thm_C4_NoHiddenEntryReturned ==
    FillReturned =>
        \A i \in DOMAIN lsPage.last.ents : ~ShouldHide(policy, Join(lsFS.path, lsPage.last.ents[i]))

\* a call out of sequence at an offset > 0 that returns an entry listed
\* after a hidden one
Wit_C4_NoHiddenEntryReturned ==
    /\ FillReturned /\ FilteredIterator /\ ~lsPage.seq
    /\ lsPage.last.offset > 0 /\ lsPage.last.n >= 1
    /\ \E i \in DOMAIN lsFS.entries, j \in DOMAIN lsFS.entries :
          /\ i < j
          /\ ShouldHide(policy, Join(lsFS.path, lsFS.entries[i]))
          /\ lsPage.last.ents[1] = lsFS.entries[j]

\* C5: paging the listing of "/" of a union mount with k mounts from
\* offset 0 yields the k mount names in lexicographic order, each once,
\* then EOF; every call returns 0 <= n <= len(buf) and n >= 1 when offset < k
Cex_C5_UnionRootPaging ==
    (FillReturned /\ lsFS.inner = "CombinedFS" /\ ~lsFS.wrapped /\ lsFS.statFails = {})
        => /\ lsPage.last.n >= 0 /\ lsPage.last.n <= lsPage.last.buf
           /\ lsPage.last.offset < Len(lsFS.entries) => lsPage.last.n >= 1
           /\ PagedFromZero => PagingDelivers(lsFS.entries)

----------------------------------------------------------------------------
(* Union mount: the operations of CombinedFS over DirFs and EmptyFS mounts *)

\* a call made on a mount and what it did; same shape as the result of a
\* DirFs operation
EmptyFS_Err(op, args) ==
    CASE op \in {"Stat", "Lstat", "ReadLink"} -> (IF args[1] = <<"/">> THEN "nil" ELSE "ErrInvalid")
      [] op = "List" -> "nil"
      [] op = "Read" -> "ErrNotExist"
      [] OTHER -> "ErrPermission"

EmptyFS_Results(op, args) == {DirResult(op, args, EmptyFS_Err(op, args), <<>>, <<>>)}

\* the method op of the DirFs d
DirFs_Results(d, op, args, flags) ==
    CASE op = "List" -> DirFs_ListResults(d, args[1])
      [] op = "Stat" -> DirFs_StatResults(d, args[1])
      [] op = "Lstat" -> DirFs_LstatResults(d, args[1])
      [] op = "ReadLink" -> DirFs_ReadLinkResults(d, args[1])
      [] op = "Read" -> DirFs_ReadResults(d, args[1])
      [] op = "Write" -> DirFs_WriteResults(d, args[1])
      [] op = "SetStat" -> DirFs_SetStatResults(d, args[1], flags)
      [] op = "Rmdir" -> DirFs_RmdirResults(d, args[1])
      [] op = "Rm" -> DirFs_RmResults(d, args[1])
      [] op = "Mkdir" -> DirFs_MkdirResults(d, args[1])
      [] op = "Rename" -> DirFs_RenameResults(d, args[1], args[2])
      [] op = "Link" -> DirFs_LinkResults(d, args[1], args[2])
      [] op = "Symlink" -> DirFs_SymlinkResults(d, args[1], args[2])

\* sfs.op(args) for a mount of the table
MountCall(sfs, op, args, flags) ==
    IF sfs.kind = "EmptyFS" THEN EmptyFS_Results(op, args)
    ELSE DirFs_Results(sfs, op, args, flags)

\* Extract: the path without its leading slash belongs to the mount name
\* when it is the name or the name followed by a slash
StripSlash(path) == IF path[1] = "/" THEN Tail(path) ELSE path

SubPathOf(path, name) ==
    IF Len(path) = Len(name) THEN <<"/">> ELSE SubSeq(path, Len(name) + 1, Len(path))

Belongs(path, name) ==
    /\ Len(path) >= Len(name)
    /\ Prefix(path, Len(name)) = name
    /\ SubPathOf(path, name)[1] = "/"

Extracted(err, subpath, name, sfs) == [err |-> err, subpath |-> subpath, name |-> name, sfs |-> sfs]

NoSfs == [kind |-> "nil"]

\* the range over the map visits the names in any order
ExtractIn(c, path) ==
    {Extracted("nil", SubPathOf(path, name), name, c.Dirs[name])
        : name \in {n \in DOMAIN c.Dirs : Belongs(path, n)}}

\* path[0] of the empty path is an index out of range
Extract(c, path) ==
    IF Len(path) = 0 THEN {Extracted("panic", <<>>, <<>>, NoSfs)}
    ELSE IF ExtractIn(c, StripSlash(path)) = {} THEN {Extracted("ErrNotExist", <<>>, <<>>, NoSfs)}
    ELSE ExtractIn(c, StripSlash(path))

\* the result of a CombinedFS operation: sfs are the mounts Extract
\* returned, calls the methods called on them, abs the results of the
\* IntoAbsPath calls, sys the calls into the host's os package
UnionResult(op, args, err, sfs, calls, abs, sys) ==
    [op |-> op, args |-> args, err |-> err, sfs |-> sfs, calls |-> calls, abs |-> abs, sys |-> sys]

UnionFailed(op, args, err, sfs) == {UnionResult(op, args, err, sfs, <<>>, <<>>, <<>>)}

MountCalled(name, op, args) == [name |-> name, op |-> op, args |-> args]

\* return sfs.op(subpath)
Delegated(op, path, e, flags) ==
    {UnionResult(op, <<path>>, r.err, <<e.sfs>>, <<MountCalled(e.name, op, <<e.subpath>>)>>, r.abs, r.sys)
        : r \in MountCall(e.sfs, op, <<e.subpath>>, flags)}

\* after Extract returned e; rootGuard tells that the operation refuses
\* the root of a mount
OnePathAt(op, path, e, rootGuard, flags) ==
    IF e.err # "nil" THEN UnionFailed(op, <<path>>, e.err, <<>>)
    ELSE IF rootGuard /\ e.subpath = <<"/">> THEN UnionFailed(op, <<path>>, "ErrPermission", <<e.sfs>>)
    ELSE Delegated(op, path, e, flags)

\* operations on one path: the answer for "/", Extract, the call of the mount
CombinedFS_OnePath(c, op, path, rootErr, rootGuard, flags) ==
    IF path = <<"/">> THEN UnionFailed(op, <<path>>, rootErr, <<>>)
    ELSE UNION {OnePathAt(op, path, e, rootGuard, flags) : e \in Extract(c, path)}

CombinedFS_ListResults(c, path) == CombinedFS_OnePath(c, "List", path, "nil", FALSE, {})
CombinedFS_StatResults(c, path) == CombinedFS_OnePath(c, "Stat", path, "nil", FALSE, {})
CombinedFS_LstatResults(c, path) == CombinedFS_OnePath(c, "Lstat", path, "nil", FALSE, {})
CombinedFS_ReadLinkResults(c, path) == CombinedFS_OnePath(c, "ReadLink", path, "nil", FALSE, {})
CombinedFS_ReadResults(c, path) == CombinedFS_OnePath(c, "Read", path, "nil", FALSE, {})
CombinedFS_WriteResults(c, path) == CombinedFS_OnePath(c, "Write", path, "ErrInvalid", FALSE, {})
CombinedFS_SetStatResults(c, path, flags) == CombinedFS_OnePath(c, "SetStat", path, "ErrPermission", FALSE, flags)
CombinedFS_RmdirResults(c, path) == CombinedFS_OnePath(c, "Rmdir", path, "ErrPermission", TRUE, {})
CombinedFS_RmResults(c, path) == CombinedFS_OnePath(c, "Rm", path, "ErrPermission", TRUE, {})
CombinedFS_MkdirResults(c, path) == CombinedFS_OnePath(c, "Mkdir", path, "ErrPermission", TRUE, {})

\* return srcSfs.op(subSrc, subDst)
DelegatedPair(op, src, dst, es, ed) ==
    {UnionResult(op, <<src, dst>>, r.err, <<es.sfs, ed.sfs>>,
                 <<MountCalled(es.name, op, <<es.subpath, ed.subpath>>)>>, r.abs, r.sys)
        : r \in MountCall(es.sfs, op, <<es.subpath, ed.subpath>>, {})}

\* mutant: only the source mount is asked for the write permission
CrossNative_SrcOnly(op, fn, src, dst, es, ed, aSrc, aDst) ==
    IF aSrc.err # "nil" THEN UnionFailed(op, <<src, dst>>, aSrc.err, <<es.sfs, ed.sfs>>)
    ELSE IF aDst.err # "nil"
    THEN {UnionResult(op, <<src, dst>>, aDst.err, <<es.sfs, ed.sfs>>, <<>>, <<aSrc.path>>, <<>>)}
    ELSE IF ~DirFs_CanWrite(es.sfs, aSrc.path)
    THEN {UnionResult(op, <<src, dst>>, "ErrForbidden", <<es.sfs, ed.sfs>>, <<>>,
                      <<aSrc.path, aDst.path>>, <<>>)}
    ELSE {UnionResult(op, <<src, dst>>, e, <<es.sfs, ed.sfs>>, <<>>, <<aSrc.path, aDst.path>>,
                      <<Sys(fn, <<aSrc.path, aDst.path>>)>>) : e \in {"nil", "os error"}}

\* both mounts are OsDirFS: aSrc and aDst are the results of the two
\* IntoAbsPath calls, then CanWrite of both mounts, then the host call
CrossNative(op, fn, src, dst, es, ed, aSrc, aDst) ==
    IF aSrc.err # "nil" THEN UnionFailed(op, <<src, dst>>, aSrc.err, <<es.sfs, ed.sfs>>)
    ELSE IF aDst.err # "nil"
    THEN {UnionResult(op, <<src, dst>>, aDst.err, <<es.sfs, ed.sfs>>, <<>>, <<aSrc.path>>, <<>>)}
    ELSE IF ~DirFs_CanWrite(es.sfs, aSrc.path) \/ ~DirFs_CanWrite(ed.sfs, aDst.path)
    THEN {UnionResult(op, <<src, dst>>, "ErrForbidden", <<es.sfs, ed.sfs>>, <<>>,
                      <<aSrc.path, aDst.path>>, <<>>)}
    ELSE {UnionResult(op, <<src, dst>>, e, <<es.sfs, ed.sfs>>, <<>>, <<aSrc.path, aDst.path>>,
                      <<Sys(fn, <<aSrc.path, aDst.path>>)>>) : e \in {"nil", "os error"}}

\* the copy-and-remove fallback of Rename up to its two Stat calls.  A
\* DirFs or EmptyFS mount never lets it go further: the fallback is taken
\* when one side is an EmptyFS, whose Stat of a path other than "/" fails
\* with ErrInvalid.
RenameFallbackDst(src, dst, es, ed, s, t) ==
    {UnionResult("Rename", <<src, dst>>, IF t.err = "nil" THEN "target path exists" ELSE t.err,
                 <<es.sfs, ed.sfs>>,
                 <<MountCalled(es.name, "Stat", <<es.subpath>>), MountCalled(ed.name, "Stat", <<ed.subpath>>)>>,
                 s.abs \o t.abs, s.sys \o t.sys)}

RenameFallbackSrc(src, dst, es, ed, s) ==
    IF s.err # "nil"
    THEN {UnionResult("Rename", <<src, dst>>, s.err, <<es.sfs, ed.sfs>>,
                      <<MountCalled(es.name, "Stat", <<es.subpath>>)>>, s.abs, s.sys)}
    ELSE UNION {RenameFallbackDst(src, dst, es, ed, s, t) : t \in MountCall(ed.sfs, "Stat", <<ed.subpath>>, {})}

RenameFallback(src, dst, es, ed) ==
    UNION {RenameFallbackSrc(src, dst, es, ed, s) : s \in MountCall(es.sfs, "Stat", <<es.subpath>>, {})}

\* Rename after both Extract calls
RenameAt(src, dst, es, ed) ==
    IF es.err # "nil" THEN UnionFailed("Rename", <<src, dst>>, es.err, <<>>)
    ELSE IF ed.err # "nil" THEN UnionFailed("Rename", <<src, dst>>, ed.err, <<es.sfs>>)
    ELSE IF es.subpath = <<"/">> \/ ed.subpath = <<"/">>
    THEN UnionFailed("Rename", <<src, dst>>, "ErrInvalid", <<es.sfs, ed.sfs>>)
    ELSE IF es.sfs = ed.sfs THEN DelegatedPair("Rename", src, dst, es, ed)
    ELSE IF es.sfs.kind = "DirFs" /\ ed.sfs.kind = "DirFs"
    THEN CrossNative("Rename", "os.Rename", src, dst, es, ed,
                     IntoAbsPath(es.sfs, es.subpath), IntoAbsPath(ed.sfs, ed.subpath))
    ELSE RenameFallback(src, dst, es, ed)

CombinedFS_RenameResults(c, src, dst) ==
    IF src = <<"/">> \/ dst = <<"/">> THEN UnionFailed("Rename", <<src, dst>>, "ErrPermission", <<>>)
    ELSE IF src = dst THEN UnionFailed("Rename", <<src, dst>>, "nil", <<>>)
    ELSE UNION {RenameAt(src, dst, es, ed) : es \in Extract(c, src), ed \in Extract(c, dst)}

\* Link and Symlink after both Extract calls; the absolute path of the
\* destination is computed by srcDirFs.IntoAbsPath(subDst)
LinkAt(op, fn, src, dst, es, ed) ==
    IF es.err # "nil" THEN UnionFailed(op, <<src, dst>>, es.err, <<>>)
    ELSE IF ed.err # "nil" THEN UnionFailed(op, <<src, dst>>, ed.err, <<es.sfs>>)
    ELSE IF es.subpath = <<"/">> \/ ed.subpath = <<"/">>
    THEN UnionFailed(op, <<src, dst>>, "ErrPermission", <<es.sfs, ed.sfs>>)
    ELSE IF es.sfs = ed.sfs THEN DelegatedPair(op, src, dst, es, ed)
    ELSE IF es.sfs.kind = "DirFs" /\ ed.sfs.kind = "DirFs"
    THEN CrossNative(op, fn, src, dst, es, ed,
                     IntoAbsPath(es.sfs, es.subpath), IntoAbsPath(es.sfs, ed.subpath))
    ELSE UnionFailed(op, <<src, dst>>, "cannot link between different file systems", <<es.sfs, ed.sfs>>)

CombinedFS_LinkOrSymlink(c, op, fn, src, dst) ==
    IF src = <<"/">> \/ dst = <<"/">> THEN UnionFailed(op, <<src, dst>>, "ErrPermission", <<>>)
    ELSE UNION {LinkAt(op, fn, src, dst, es, ed) : es \in Extract(c, src), ed \in Extract(c, dst)}

CombinedFS_LinkResults(c, src, dst) == CombinedFS_LinkOrSymlink(c, "Link", "os.Link", src, dst)

CombinedFS_SymlinkResults(c, src, dst) == CombinedFS_LinkOrSymlink(c, "Symlink", "os.Symlink", src, dst)

\* the names of the mounts and the mounts of the table
MountNames == {<<"a">>, <<"r">>}

UnionRoots == {<<"/", "r">>, <<"/", "a">>}

Mounts ==
    {[kind |-> "DirFs", Root |-> root, Readonly |-> ro] : root \in UnionRoots, ro \in BOOLEAN}
    \cup {[kind |-> "EmptyFS", Root |-> <<>>, Readonly |-> TRUE]}

\* the paths given to the union: "", "/", and a mount name, with or
\* without the leading slash, followed by nothing, a slash, a letter or
\* up to MaxSegs elements "a" or ".."
Segs == {<<"a">>, <<".", ".">>}

RECURSIVE SegPaths(_)
SegPaths(n) ==
    IF n = 0 THEN {<<>>}
    ELSE SegPaths(n - 1) \cup {p \o <<"/">> \o seg : p \in SegPaths(n - 1), seg \in Segs}

UnionPaths ==
    {<<>>, <<"/">>}
    \cup {head \o sub : head \in {<<"/", "a">>, <<"/", "r">>, <<"r">>},
                        sub \in SegPaths(MaxSegs) \cup {<<"/">>, <<"a">>}}

UnionCallIdle == cfsRes.op = "none"
UnionUnchanged == UNCHANGED <<pathIn, pathRes, dirFS, dirRes, policy, pwRes, lsFS, lsIter, lsPage, cfs, moveVars, fabVars, svcVars>>

CombinedFS_List == UnionCallIdle /\ UnionUnchanged /\ \E p \in UnionPaths : cfsRes' \in CombinedFS_ListResults(cfs, p)
CombinedFS_Stat == UnionCallIdle /\ UnionUnchanged /\ \E p \in UnionPaths : cfsRes' \in CombinedFS_StatResults(cfs, p)
CombinedFS_Lstat == UnionCallIdle /\ UnionUnchanged /\ \E p \in UnionPaths : cfsRes' \in CombinedFS_LstatResults(cfs, p)
CombinedFS_ReadLink ==
    UnionCallIdle /\ UnionUnchanged /\ \E p \in UnionPaths : cfsRes' \in CombinedFS_ReadLinkResults(cfs, p)
CombinedFS_Read == UnionCallIdle /\ UnionUnchanged /\ \E p \in UnionPaths : cfsRes' \in CombinedFS_ReadResults(cfs, p)
CombinedFS_Write == UnionCallIdle /\ UnionUnchanged /\ \E p \in UnionPaths : cfsRes' \in CombinedFS_WriteResults(cfs, p)
CombinedFS_SetStat ==
    UnionCallIdle /\ UnionUnchanged
    /\ \E p \in UnionPaths, flags \in SUBSET FileAttrFlags : cfsRes' \in CombinedFS_SetStatResults(cfs, p, flags)
CombinedFS_Rename ==
    UnionCallIdle /\ UnionUnchanged
    /\ \E s \in UnionPaths, t \in UnionPaths : cfsRes' \in CombinedFS_RenameResults(cfs, s, t)
CombinedFS_Rmdir == UnionCallIdle /\ UnionUnchanged /\ \E p \in UnionPaths : cfsRes' \in CombinedFS_RmdirResults(cfs, p)
CombinedFS_Rm == UnionCallIdle /\ UnionUnchanged /\ \E p \in UnionPaths : cfsRes' \in CombinedFS_RmResults(cfs, p)
CombinedFS_Mkdir == UnionCallIdle /\ UnionUnchanged /\ \E p \in UnionPaths : cfsRes' \in CombinedFS_MkdirResults(cfs, p)
CombinedFS_Link ==
    UnionCallIdle /\ UnionUnchanged
    /\ \E s \in UnionPaths, t \in UnionPaths : cfsRes' \in CombinedFS_LinkResults(cfs, s, t)
CombinedFS_Symlink ==
    UnionCallIdle /\ UnionUnchanged
    /\ \E s \in UnionPaths, t \in UnionPaths : cfsRes' \in CombinedFS_SymlinkResults(cfs, s, t)

InitUnion ==
    /\ cfs \in {[Dirs |-> dirs] : dirs \in [MountNames -> Mounts]}
    /\ cfsRes = NoCfsCall
    /\ mvFS = NoMvFS /\ mvRes = NoMvCall
    /\ FabricIdle
    /\ pathIn = <<>> /\ pathRes = NoPathCall
    /\ dirFS = NoDirFS /\ dirRes = NoDirCall
    /\ policy = NoPolicy /\ pwRes = NoPwCall
    /\ lsFS = NoLsFS /\ lsIter = NoLsIter /\ lsPage = NoLsPage

NextUnion ==
    \/ CombinedFS_List \/ CombinedFS_Stat \/ CombinedFS_Lstat \/ CombinedFS_ReadLink
    \/ CombinedFS_Read \/ CombinedFS_Write \/ CombinedFS_SetStat \/ CombinedFS_Rename
    \/ CombinedFS_Rmdir \/ CombinedFS_Rm \/ CombinedFS_Mkdir \/ CombinedFS_Link
    \/ CombinedFS_Symlink

SpecUnion == InitUnion /\ [][NextUnion]_vars

----------------------------------------------------------------------------
(* Properties of the union mount *)

UnionCalled == cfsRes.op # "none"

MutatingOps == {"Write", "SetStat", "Rename", "Rmdir", "Rm", "Mkdir", "Link", "Symlink"}

\* the host calls that can change the directory tree
MutatingSys ==
    {"os.OpenFile", "os.Truncate", "os.Chmod", "os.Chown", "os.Chtimes",
     "os.Rename", "os.Remove", "os.Mkdir", "os.Link", "os.Symlink"}

NoMutatingSys == \A i \in DOMAIN cfsRes.sys : cfsRes.sys[i].fn \notin MutatingSys

\* the operation got to mounts that are all native directories
OnNativeMounts ==
    /\ Len(cfsRes.sfs) = Len(cfsRes.args)
    /\ \A i \in DOMAIN cfsRes.sfs : cfsRes.sfs[i].kind = "DirFs"

SomeMountReadonly ==
    \E i \in DOMAIN cfsRes.sfs : cfsRes.sfs[i].kind = "DirFs" /\ cfsRes.sfs[i].Readonly

\* IntoAbsPath accepted every path of the operation
AllPathsAccepted == Len(cfsRes.abs) = Len(cfsRes.args)

\* C11: a mutating operation that gets to a read-only DirFs, directly or
\* on the cross-mount paths of rename, link and symlink, makes no host call
\* that changes the tree, and returns ErrForbidden when its paths are
\* accepted; no read is answered with ErrForbidden by a DirFs
Thm_C11_ReadonlyMountUnchanged ==
    UnionCalled =>
        /\ (cfsRes.op \in MutatingOps /\ SomeMountReadonly) => NoMutatingSys
        /\ (cfsRes.op \in MutatingOps /\ SomeMountReadonly /\ OnNativeMounts /\ AllPathsAccepted)
              => (cfsRes.err = "ErrForbidden" /\ cfsRes.sys = <<>>)
        /\ (cfsRes.op \notin MutatingOps /\ OnNativeMounts) => cfsRes.err # "ErrForbidden"

\* a rename from a writable mount into a read-only mount with another root
Wit_C11_ReadonlyMountUnchanged ==
    /\ UnionCalled /\ cfsRes.op = "Rename" /\ OnNativeMounts /\ AllPathsAccepted
    /\ ~cfsRes.sfs[1].Readonly /\ cfsRes.sfs[2].Readonly
    /\ cfsRes.sfs[1].Root # cfsRes.sfs[2].Root
    /\ cfsRes.err = "ErrForbidden" /\ cfsRes.sys = <<>>

\* path is "/" or names the root of a mount
RootOrMountRoot(c, path) ==
    \/ path = <<"/">>
    \/ \E e \in Extract(c, path) : e.err = "nil" /\ e.subpath = <<"/">>

RootGuardedOps == {"Mkdir", "Rm", "Rmdir", "Rename", "Link", "Symlink"}

\* path is "/" or lies in a mount of the table
Resolves(c, path) == path = <<"/">> \/ \E e \in Extract(c, path) : e.err = "nil"

\* an operation that must not touch a root, given paths that all resolve
\* and one of which is "/" or the root of a mount
TouchesRoot ==
    /\ UnionCalled /\ cfsRes.op \in RootGuardedOps
    /\ \A i \in DOMAIN cfsRes.args : Resolves(cfs, cfsRes.args[i])
    /\ \E i \in DOMAIN cfsRes.args : RootOrMountRoot(cfs, cfsRes.args[i])

\* C19: mkdir, rm, rmdir on "/" or on the root of a mount, and rename,
\* link, symlink with "/" or the root of a mount on either side, fail with
\* Forbidden or Invalid and call no mutating method of a mount
Cex_C19_RootImmutable ==
    TouchesRoot =>
        /\ cfsRes.err \in {"ErrPermission", "ErrForbidden", "ErrInvalid"}
        /\ cfsRes.calls = <<>> /\ cfsRes.sys = <<>>

\* a link or symlink between two different filesystems of the table, none
\* of the two paths being the root of its mount
CrossMountLink(es, ed) ==
    /\ UnionCalled /\ cfsRes.op \in {"Link", "Symlink"}
    /\ es.err = "nil" /\ ed.err = "nil"
    /\ es.subpath # <<"/">> /\ ed.subpath # <<"/">>
    /\ es.sfs # ed.sfs

BothNativeWritable(es, ed) ==
    /\ es.sfs.kind = "DirFs" /\ ~es.sfs.Readonly
    /\ ed.sfs.kind = "DirFs" /\ ~ed.sfs.Readonly

\* the one host call that links join(dstRoot, subDst) to join(srcRoot, subSrc)
LinkedInDstRoot(es, ed) ==
    /\ Len(cfsRes.sys) = 1
    /\ cfsRes.sys[1].fn = (IF cfsRes.op = "Link" THEN "os.Link" ELSE "os.Symlink")
    /\ cfsRes.sys[1].paths = <<Join(es.sfs.Root, es.subpath), Join(ed.sfs.Root, ed.subpath)>>

\* C20: a link or symlink between two different mounts succeeds only when
\* both are native and writable, then links the destination's host path
\* under the destination mount's root to the source's host path under the
\* source mount's root; when a side is not native it fails with the
\* cannot-link error and calls nothing
Cex_C20_CrossMountLink ==
    \A es \in Extract(cfs, IF UnionCalled /\ Len(cfsRes.args) = 2 THEN cfsRes.args[1] ELSE <<"/">>),
       ed \in Extract(cfs, IF UnionCalled /\ Len(cfsRes.args) = 2 THEN cfsRes.args[2] ELSE <<"/">>) :
        CrossMountLink(es, ed) =>
            /\ cfsRes.err = "nil" => (BothNativeWritable(es, ed) /\ LinkedInDstRoot(es, ed))
            /\ (es.sfs.kind # "DirFs" \/ ed.sfs.kind # "DirFs")
                  => /\ cfsRes.err = "cannot link between different file systems"
                     /\ cfsRes.sys = <<>> /\ cfsRes.calls = <<>>

----------------------------------------------------------------------------
(* Cross-mount rename of CombinedFS over the directory trees of two mounts *)

\* a directory tree: a file with its bytes, a directory with its entries,
\* or a symbolic link with the node it points at (NoNode when it dangles)
NoNode == [kind |-> "none"]
File(data) == [kind |-> "file", data |-> data]
Dir(ents) == [kind |-> "dir", ents |-> ents]
Link(to) == [kind |-> "link", to |-> to]

NoEntries == [x \in {} |-> NoNode]

\* os.Stat, os.Open and os.OpenFile follow a symbolic link
Follow(node) == IF node.kind = "link" THEN node.to ELSE node

\* the elements of a path below the root of its mount
HostElems(path) == CleanElems(SplitSlash(path), <<>>, TRUE)

RECURSIVE NodeAt(_, _)
NodeAt(tree, elems) ==
    IF Len(elems) = 0 THEN tree
    ELSE IF tree.kind # "dir" THEN NoNode
    ELSE IF Head(elems) \notin DOMAIN tree.ents THEN NoNode
    ELSE NodeAt(tree.ents[Head(elems)], Tail(elems))

Front(elems) == SubSeq(elems, 1, Len(elems) - 1)

ParentIsDir(tree, elems) == Len(elems) > 0 /\ NodeAt(tree, Front(elems)).kind = "dir"

\* the tree with node at elems, whose parent is a directory
RECURSIVE PutAt(_, _, _)
PutAt(tree, elems, node) ==
    IF Len(elems) = 1
    THEN Dir([x \in DOMAIN tree.ents \cup {elems[1]} |-> IF x = elems[1] THEN node ELSE tree.ents[x]])
    ELSE Dir([x \in DOMAIN tree.ents |->
                 IF x = elems[1] THEN PutAt(tree.ents[x], Tail(elems), node) ELSE tree.ents[x]])

\* the tree without the entry at elems
RECURSIVE RemoveAt(_, _)
RemoveAt(tree, elems) ==
    IF Len(elems) = 1
    THEN Dir([x \in DOMAIN tree.ents \ {elems[1]} |-> tree.ents[x]])
    ELSE Dir([x \in DOMAIN tree.ents |->
                 IF x = elems[1] THEN RemoveAt(tree.ents[x], Tail(elems)) ELSE tree.ents[x]])

\* the trees of the source and of the destination mount and the error of
\* the step that failed
\* step counts the calls made on the two mounts that go to the
\* host; the call number failAt, if there is one, fails with an error of
\* the host, and an io.Copy that fails has written the first `partial`
\* bytes
World(src, dst, err) == [src |-> src, dst |-> dst, err |-> err, step |-> 0, failAt |-> 0, partial |-> 0]

Failed(w, err) == [w EXCEPT !.err = err]

\* a call that goes to the host: it fails there, or does what ok says
Tick(w) == [w EXCEPT !.step = @ + 1]
HostFails(w) == w.failAt = w.step + 1
Attempt(w, ok) == IF HostFails(w) THEN Failed(Tick(w), "os error") ELSE ok

\* os.Stat of a path of a mount
StatNode(tree, path) == Follow(NodeAt(tree, HostElems(path)))

Opened(err, tree) == [err |-> err, tree |-> tree]

\* Write of a mount: os.OpenFile(abspath, O_WRONLY|O_CREATE); it creates a
\* missing file, also the missing target of a symbolic link, and opens an
\* existing file without truncating it
WriteOpen(tree, elems, node) ==
    IF node.kind = "none"
    THEN (IF ParentIsDir(tree, elems) THEN Opened("nil", PutAt(tree, elems, File(<<>>)))
          ELSE Opened("ErrNotExist", tree))
    ELSE IF node.kind = "dir" THEN Opened("is a directory", tree)
    ELSE IF node.kind = "link" /\ node.to.kind = "none"
    THEN Opened("nil", PutAt(tree, elems, Link(File(<<>>))))
    ELSE Opened("nil", tree)

\* WriteAt from offset 0: the bytes written replace the first bytes
Overlay(old, new) == new \o SubSeq(old, Len(new) + 1, Len(old))

Written(node, data) ==
    IF node.kind = "link" THEN Link(File(Overlay(node.to.data, data)))
    ELSE File(Overlay(node.data, data))

\* io.Copy into the opened file at elems
WriteData(tree, elems, data) == PutAt(tree, elems, Written(NodeAt(tree, elems), data))

\* mutant: the source file is not removed after the copy
Rm_Kept(w, path) == w

\* Rm of the source mount: os.Stat, the directory test, os.Remove
RmAt(w, elems, stat) ==
    IF stat.kind = "none" THEN Failed(w, "ErrNotExist")
    ELSE IF stat.kind = "dir" THEN Failed(w, "is a directory")
    ELSE [w EXCEPT !.src = RemoveAt(w.src, elems)]

Rm(w, path) == Attempt(w, RmAt(Tick(w), HostElems(path), StatNode(w.src, path)))

\* Rmdir of the source mount: os.Stat, the directory test, os.Remove, which
\* refuses a directory that is not empty
RmdirAt(w, elems, stat) ==
    IF stat.kind = "none" THEN Failed(w, "ErrNotExist")
    ELSE IF stat.kind # "dir" THEN Failed(w, "not a directory")
    ELSE IF Len(elems) = 0 \/ DOMAIN stat.ents # {} THEN Failed(w, "directory not empty")
    ELSE [w EXCEPT !.src = RemoveAt(w.src, elems)]

Rmdir(w, path) == Attempt(w, RmdirAt(Tick(w), HostElems(path), StatNode(w.src, path)))

\* Mkdir of the destination mount: os.Mkdir
MkdirAt(w, elems) ==
    IF Len(elems) = 0 \/ NodeAt(w.dst, elems).kind # "none" THEN Failed(w, "ErrExist")
    ELSE IF ~ParentIsDir(w.dst, elems) THEN Failed(w, "ErrNotExist")
    ELSE [w EXCEPT !.dst = PutAt(w.dst, elems, Dir(NoEntries))]

Mkdir(w, elems) == Attempt(w, MkdirAt(Tick(w), elems))

\* the bytes of data that an io.Copy cut short has written
CutShort(w, data) == Prefix(data, min(w.partial, Len(data)))

\* a copy whose error is returned only after the source has been removed
FileCopied_Unchecked(w, srcPath, dstPath, data) ==
    IF HostFails(w)
    THEN Failed(Rm([Tick(w) EXCEPT !.dst = WriteData(w.dst, HostElems(dstPath), CutShort(w, data))], srcPath),
                "os error")
    ELSE Rm([Tick(w) EXCEPT !.dst = WriteData(w.dst, HostElems(dstPath), data)], srcPath)

\* io.Copy from the reader to the writer: on an error renameFileFallback
\* returns it, else it goes on to srcSfs.Rm
FileCopied(w, srcPath, dstPath, data) ==
    IF HostFails(w)
    THEN Failed([Tick(w) EXCEPT !.dst = WriteData(w.dst, HostElems(dstPath), CutShort(w, data))], "os error")
    ELSE Rm([Tick(w) EXCEPT !.dst = WriteData(w.dst, HostElems(dstPath), data)], srcPath)

\* renameFileFallback after srcSfs.Read and dstSfs.Write: io.Copy, which
\* fails on a reader of a directory, then srcSfs.Rm
FileWritten(w, srcPath, dstPath, reader, opened) ==
    IF opened.err # "nil" THEN Failed(w, opened.err)
    ELSE IF reader.kind = "dir" THEN Failed([w EXCEPT !.dst = opened.tree], "is a directory")
    ELSE FileCopied([w EXCEPT !.dst = opened.tree], srcPath, dstPath, reader.data)

\* dstSfs.Write
FileRead(w, srcPath, dstPath, reader) ==
    IF reader.kind = "none" THEN Failed(w, "ErrNotExist")
    ELSE Attempt(w, FileWritten(Tick(w), srcPath, dstPath, reader,
                                WriteOpen(w.dst, HostElems(dstPath), NodeAt(w.dst, HostElems(dstPath)))))

\* srcSfs.Read
renameFileFallback(w, srcPath, dstPath) ==
    Attempt(w, FileRead(Tick(w), srcPath, dstPath, StatNode(w.src, srcPath)))

\* the buffer of renameDirectoryFallback
FallbackBuffer == 5

RECURSIVE renameDirectoryFallback(_, _, _)
RECURSIVE DirectoryLoop(_, _, _, _, _)
RECURSIVE ElementLoop(_, _, _, _, _)

\* one element of a batch; listed is the directory as os.ReadDir saw it
Element(w, srcPath, dstPath, listed, name) ==
    IF listed.ents[name].kind = "dir"
    THEN renameDirectoryFallback(w, Join(srcPath, name), Join(dstPath, name))
    ELSE renameFileFallback(w, Join(srcPath, name), Join(dstPath, name))

\* for _, element := range buffer[:read], left at the first error
ElementLoop(w, srcPath, dstPath, listed, elements) ==
    IF Len(elements) = 0 \/ w.err # "nil" THEN w
    ELSE ElementLoop(Element(w, srcPath, dstPath, listed, Head(elements)),
                     srcPath, dstPath, listed, Tail(elements))

\* after the elements of a batch: err holds the nil of the last rename,
\* never the EOF of the iterator, so the loop always asks the iterator again
DirectoryNext(w, srcPath, dstPath, listed, offset) ==
    IF w.err # "nil" THEN w ELSE DirectoryLoop(w, srcPath, dstPath, listed, offset)

DirectoryRead(w, srcPath, dstPath, listed, offset, read) ==
    IF read.err \notin {"nil", "EOF"} THEN Failed(w, read.err)
    ELSE IF read.n = 0 THEN Rmdir(w, srcPath)
    ELSE DirectoryNext(ElementLoop(w, srcPath, dstPath, listed, read.ents),
                       srcPath, dstPath, listed, offset + read.n)

\* the loop over the iterator of srcSfs.List(srcPath), which serves the
\* sorted entries that os.ReadDir returned
DirectoryLoop(w, srcPath, dstPath, listed, offset) ==
    DirectoryRead(w, srcPath, dstPath, listed, offset,
                  DirFs_ListAt(SortStrings(DOMAIN listed.ents), FallbackBuffer, offset))

DirectoryListed(w, srcPath, dstPath, listed) ==
    IF listed.kind # "dir" THEN Failed(w, "not a directory")
    ELSE DirectoryLoop(w, srcPath, dstPath, listed, 0)

\* srcSfs.List
DirectoryMade(w, srcPath, dstPath) ==
    IF w.err # "nil" THEN w
    ELSE Attempt(w, DirectoryListed(Tick(w), srcPath, dstPath, StatNode(w.src, srcPath)))

renameDirectoryFallback(w, srcPath, dstPath) ==
    DirectoryMade(Mkdir(w, HostElems(dstPath)), srcPath, dstPath)

\* the fallback of Rename after its two Stat calls
RenameCopy(w, subSrc, subDst, srcStat, dstStat) ==
    IF srcStat.kind = "none" THEN Failed(w, "ErrNotExist")
    ELSE IF dstStat.kind # "none" THEN Failed(w, "target path exists")
    ELSE IF srcStat.kind = "dir" THEN renameDirectoryFallback(w, subSrc, subDst)
    ELSE renameFileFallback(w, subSrc, subDst)

\* os.Rename of the host: it moves the entry, and replaces a destination
\* that is not a directory by a source that is not one, and an empty
\* directory by a directory
Replaceable(node, by) ==
    \/ node.kind = "none"
    \/ node.kind \in {"file", "link"} /\ by.kind \in {"file", "link"}
    \/ node.kind = "dir" /\ by.kind = "dir" /\ DOMAIN node.ents = {}

RenameMoved(w, srcElems, dstElems, node) ==
    IF Len(srcElems) = 0 \/ node.kind = "none" THEN Failed(w, "ErrNotExist")
    ELSE IF ~ParentIsDir(w.dst, dstElems) THEN Failed(w, "ErrNotExist")
    ELSE IF ~Replaceable(NodeAt(w.dst, dstElems), node) THEN Failed(w, "ErrExist")
    ELSE [w EXCEPT !.src = RemoveAt(w.src, srcElems), !.dst = PutAt(w.dst, dstElems, node)]

\* Rename between two mounts: os.Rename when both are writable DirFs, the
\* fallback otherwise
RenameAcross(fs, subSrc, subDst) ==
    IF fs.kind = "native"
    THEN RenameMoved(World(fs.src, fs.dst, "nil"), HostElems(subSrc), HostElems(subDst),
                     NodeAt(fs.src, HostElems(subSrc)))
    ELSE RenameCopy([World(fs.src, fs.dst, "nil") EXCEPT !.failAt = fs.failAt, !.partial = fs.partial],
                    subSrc, subDst, StatNode(fs.src, subSrc), StatNode(fs.dst, subDst))

Renamed(subSrc, subDst, w) ==
    /\ mvFS' = [mvFS EXCEPT !.src = w.src, !.dst = w.dst]
    /\ mvRes' = [op |-> "Rename", args |-> <<subSrc, subDst>>, err |-> w.err, before |-> mvFS,
                 faulted |-> (w.failAt # 0 /\ w.step >= w.failAt)]

MovePaths == {<<"/", "a">>, <<"/", "r">>, <<"/", "a", "/", "a">>}

MoveRename ==
    /\ mvFS.kind # "none" /\ mvRes.op = "none"
    /\ \E subSrc \in MovePaths, subDst \in MovePaths : Renamed(subSrc, subDst, RenameAcross(mvFS, subSrc, subDst))
    /\ UNCHANGED <<pathIn, pathRes, dirFS, dirRes, policy, pwRes, lsFS, lsIter, lsPage, unionVars, fabVars, svcVars>>

\* the contents of the files
FileData == {<<>>, <<"a", "r">>}

\* the directories with no entry, with "a", with "r" or with both
DirsOf(as, rs) ==
    {Dir(NoEntries)}
    \cup {Dir([name \in {<<"a">>} |-> a]) : a \in as}
    \cup {Dir([name \in {<<"r">>} |-> r]) : r \in rs}
    \cup {Dir([name \in {<<"a">>, <<"r">>} |-> IF name = <<"a">> THEN p[1] ELSE p[2]]) : p \in as \X rs}

\* the trees of directories nested at most depth deep: the entry "a" of a
\* directory is any tree one level less deep, the entry "r" a file
RECURSIVE TreesOf(_)
TreesOf(depth) ==
    {File(data) : data \in FileData}
    \cup (IF depth = 0 THEN {} ELSE DirsOf(TreesOf(depth - 1), {File(data) : data \in FileData}))

\* the flat directories of n files "a", "aa", ...
FlatDir(n) == Dir([name \in {Repeat("a", k) : k \in 1..n} |-> File(<<>>)])

SrcNodes == TreesOf(MaxDepth) \cup {FlatDir(n) : n \in 1..MaxWide}

\* what is at "/a" of the destination mount before the rename
DstNodes ==
    {NoNode, File(<<>>), File(<<"a", "r">>), Dir(NoEntries),
     Dir([name \in {<<"a">>} |-> File(<<>>)]), Link(NoNode)}

RootWith(node) == IF node.kind = "none" THEN Dir(NoEntries) ELSE Dir([name \in {<<"a">>} |-> node])

\* the call on the host that fails during the rename, 0 for none, and
\* the bytes a failing copy has written
Faults == {[failAt |-> f, partial |-> n] : f \in 0..MaxFault, n \in {0, 1}}

\* only the copying fallback makes more than one call on the host
MoveWorlds ==
    {[kind |-> kind, src |-> RootWith(s), dst |-> RootWith(d),
      failAt |-> fault.failAt, partial |-> fault.partial]
        : kind \in {"native", "wrapped"}, s \in SrcNodes, d \in DstNodes, fault \in Faults}

InitMove ==
    /\ mvFS \in {fs \in MoveWorlds :
                    /\ fs.kind = "native" => fs.failAt = 0
                    /\ fs.failAt = 0 => fs.partial = 0}
    /\ mvRes = NoMvCall
    /\ FabricIdle
    /\ cfs = NoCfs /\ cfsRes = NoCfsCall
    /\ pathIn = <<>> /\ pathRes = NoPathCall
    /\ dirFS = NoDirFS /\ dirRes = NoDirCall
    /\ policy = NoPolicy /\ pwRes = NoPwCall
    /\ lsFS = NoLsFS /\ lsIter = NoLsIter /\ lsPage = NoLsPage

NextMove == MoveRename

SpecMove == InitMove /\ [][NextMove]_vars

----------------------------------------------------------------------------
(* Properties of the cross-mount rename *)

Moved == mvRes.op = "Rename"

SrcBefore == NodeAt(mvRes.before.src, HostElems(mvRes.args[1]))
DstBefore == NodeAt(mvRes.before.dst, HostElems(mvRes.args[2]))
SrcAfter == NodeAt(mvFS.src, HostElems(mvRes.args[1]))
DstAfter == NodeAt(mvFS.dst, HostElems(mvRes.args[2]))

\* C17: a rename from one mount to a path of another mount where nothing
\* exists, when it returns success, leaves at the destination exactly what
\* was at the source (same bytes, same tree) and nothing at the source, on
\* the fallback path as on the native path
Thm_C17_RenameMovesContent ==
    (Moved /\ mvRes.err = "nil" /\ DstBefore.kind = "none")
        => (DstAfter = SrcBefore /\ SrcAfter.kind = "none" /\ SrcBefore.kind # "none")

\* the fallback has moved a directory of more entries than its buffer holds
Wit_C17_RenameMovesContent ==
    /\ Moved /\ mvRes.err = "nil" /\ mvFS.kind = "wrapped"
    /\ SrcBefore.kind = "dir" /\ Cardinality(DOMAIN SrcBefore.ents) > FallbackBuffer
    /\ DstBefore.kind = "none" /\ DstAfter = SrcBefore

\* C18: on the fallback path a rename whose destination exists fails and
\* changes neither mount
Cex_C18_ExistingTargetUntouched ==
    (Moved /\ mvFS.kind = "wrapped" /\ DstBefore.kind # "none")
        => (mvRes.err # "nil" /\ mvFS.src = mvRes.before.src /\ mvFS.dst = mvRes.before.dst)

----------------------------------------------------------------------------
(* Virtual port fabric: SSHConnectionHandler, its listeners, HandleTCPIP *)

\* the listeners created so far or still to create, the requests handled
ListenerIds == DOMAIN lsn
ReqIds == DOMAIN req

Ports == {80, 81}

\* the users of the configuration: u and w have WebDav = true, v has not
WebDavUsers == {"u", "w"}

Dial(user, host, port, parsed) == [user |-> user, host |-> host, port |-> port, parsed |-> parsed]

\* the forwarded-channel requests that arrive; parsed tells whether
\* ssh.Unmarshal accepts the extra data
Dials ==
    {Dial("u", "localhost", 80, TRUE), Dial("w", "127.0.0.1", 80, TRUE), Dial("u", "127.0.0.1", 81, TRUE),
     Dial("v", "localhost", 80, TRUE), Dial("u", "example.org", 80, TRUE), Dial("u", "localhost", 80, FALSE)}

\* listenersMutex unlocked; a locked mutex holds the request that locked it
Free == 0

\* capacity of newChannelChan
ChanCap == 1

\* no entry of the listeners map for a port
NoEntry == [ok |-> FALSE, arr |-> 0, len |-> 0]

NewListener ==
    [life |-> "new", user |-> "", port |-> 0, isPending |-> TRUE, chan |-> <<>>,
     closed |-> FALSE, acc |-> "none"]

NewRequest ==
    [pc |-> "idle", dial |-> Dial("", "", 0, FALSE), arr |-> 0, len |-> 0, i |-> 0,
     first |-> 0, target |-> 0, final |-> FALSE, res |-> "none", placed |-> <<>>,
     returned |-> 0, locked |-> FALSE, failed |-> FALSE, met |-> FALSE]

FabricFrame ==
    UNCHANGED <<pathIn, pathRes, dirFS, dirRes, policy, pwRes, lsFS, lsIter, lsPage, unionVars, moveVars, svcVars>>

\* the process has not died of a panic or a fatal error
Running == fab.wiring # "none" /\ fab.crash = "none"

\* s.ctx.Done() is ready: MakeContext builds the handler on
\* context.Background(), which is never done; a handler built on the
\* server's root context shares its cancellation
FabricDone == fab.wiring = "shared" /\ fab.rootDone

\* LocalPortForwardingCallback of Listen
LocalPortForwardingCallback(user) == user \in WebDavUsers

\* HandleTCPIP returns: its locals are gone
Finished(q, res) ==
    [q EXCEPT !.pc = "done", !.res = res, !.arr = 0, !.len = 0, !.i = 0, !.first = 0, !.target = 0,
              !.final = FALSE]

Rejected(q, reason) == Finished(q, reason)

\* HandleTCPIP up to the lookup: ssh.Unmarshal, the forwarding callback,
\* the destination host
Checked(q) ==
    IF ~q.dial.parsed THEN Rejected(q, "ConnectionFailed")
    ELSE IF ~LocalPortForwardingCallback(q.dial.user) THEN Rejected(q, "Prohibited")
    ELSE IF q.dial.host # "localhost" /\ q.dial.host # "127.0.0.1" THEN Rejected(q, "Prohibited")
    ELSE [q EXCEPT !.pc = "lookup"]

\* a listener of the map is for the port and the user of the request
Registered(l) == lsn[l].life = "open"

Meets(dial) ==
    \E l \in ListenerIds :
        Registered(l) /\ lsn[l].port = dial.port /\ (lsn[l].user = dial.user \/ lsn[l].user = "")

HandleTCPIP_Start(r) ==
    /\ Running /\ req[r].pc = "idle"
    /\ \A k \in ReqIds : k < r => req[k].pc # "idle"
    /\ \E dial \in Dials : req' = [req EXCEPT ![r] = Checked([@ EXCEPT !.dial = dial, !.met = Meets(dial)])]
    /\ UNCHANGED <<fab, lsn>>
    /\ FabricFrame

\* listeners, ok := s.listeners[d.DestPort] and the test of its length;
\* locked tells whether the reader held the mutex
LookedUp(q, entry, locked) ==
    IF ~entry.ok \/ entry.len = 0 THEN Rejected([q EXCEPT !.locked = locked], "Prohibited")
    ELSE [q EXCEPT !.pc = "lock", !.arr = entry.arr, !.len = entry.len, !.locked = locked]

\* the lookup, made before the mutex is taken
HandleTCPIP_Lookup(r) ==
    /\ Running /\ req[r].pc = "lookup"
    /\ req' = [req EXCEPT ![r] = LookedUp(@, fab.map[@.dial.port], fab.mutex = r)]
    /\ UNCHANGED <<fab, lsn>>
    /\ FabricFrame

\* a range that takes every listener of the port, whoever it is for
Matches_AnyUser(q, listener) == TRUE

Matches(q, listener) == listener.user = q.dial.user \/ listener.user = ""

\* where the range over the slice stops: at a matching pending listener,
\* which is sent to, or at its end
Stop(to, target, final, i, first) == [to |-> to, target |-> target, final |-> final, i |-> i, first |-> first]

\* the range over the slice read at the lookup, from index i on; the
\* elements are read from the slice's array as it is now, under the mutex
RECURSIVE RangeFrom(_, _, _)
RangeAt(q, i, first, l) ==
    IF ~Matches(q, lsn[l]) THEN RangeFrom(q, i + 1, first)
    ELSE IF lsn[l].isPending THEN Stop("send", l, FALSE, i, IF first = 0 THEN l ELSE first)
    ELSE RangeFrom(q, i + 1, IF first = 0 THEN l ELSE first)

RangeFrom(q, i, first) ==
    IF i <= q.len THEN RangeAt(q, i, first, fab.arrays[q.arr][i])
    ELSE IF first = 0 THEN Stop("reject", 0, TRUE, i, 0)
    ELSE Stop("send", first, TRUE, i, first)

\* the range has stopped: the request is rejected and the mutex unlocked, or
\* haveNewChannel is entered, which sets isPending = false
Ranged(r, stop, mutex) ==
    IF stop.to = "reject"
    THEN /\ req' = [req EXCEPT ![r] = Rejected(@, "Prohibited")]
         /\ fab' = [fab EXCEPT !.mutex = Free]
         /\ UNCHANGED lsn
    ELSE /\ req' = [req EXCEPT ![r].pc = "send", ![r].target = stop.target, ![r].final = stop.final,
                                ![r].i = stop.i, ![r].first = stop.first]
         /\ lsn' = [lsn EXCEPT ![stop.target].isPending = FALSE]
         /\ fab' = [fab EXCEPT !.mutex = mutex]

\* s.listenersMutex.Lock() and the range up to the first haveNewChannel
HandleTCPIP_Lock(r) ==
    /\ Running /\ req[r].pc = "lock" /\ fab.mutex = Free
    /\ Ranged(r, RangeFrom(req[r], 1, 0), r)
    /\ FabricFrame

\* the select of haveNewChannel: the pair is placed on newChannelChan
Placed(r, l) ==
    /\ ~lsn[l].closed /\ Len(lsn[l].chan) < ChanCap
    /\ lsn' = [lsn EXCEPT ![l].chan = Append(@, r), ![l].isPending = TRUE]
    /\ req' = [req EXCEPT ![r] = Finished([@ EXCEPT !.placed = Append(@, l)], "forwarded")]
    /\ fab' = [fab EXCEPT !.mutex = Free]

\* a send on a closed channel panics
PlacedOnClosed(r, l) ==
    /\ lsn[l].closed
    /\ fab' = [fab EXCEPT !.crash = "send on closed channel"]
    /\ UNCHANGED <<lsn, req>>

\* the listener as haveNewChannel leaves it: isPending = true
Left(l) == [lsn EXCEPT ![l].isPending = TRUE]

\* a failed haveNewChannel that has left the pair on the channel all the same
Resumed_Sent(r, l, stop) ==
    IF stop.to = "reject"
    THEN /\ req' = [req EXCEPT ![r] = Rejected([@ EXCEPT !.failed = TRUE, !.placed = Append(@, l)], "Prohibited")]
         /\ fab' = [fab EXCEPT !.mutex = Free]
         /\ lsn' = Left(l)
    ELSE /\ req' = [req EXCEPT ![r].target = stop.target, ![r].final = stop.final, ![r].i = stop.i,
                                ![r].first = stop.first, ![r].failed = TRUE, ![r].placed = Append(@, l)]
         /\ lsn' = [Left(l) EXCEPT ![stop.target].isPending = FALSE]
         /\ UNCHANGED fab

\* the range goes on behind index i after a failed haveNewChannel
Resumed(r, l, stop) ==
    IF stop.to = "reject"
    THEN /\ req' = [req EXCEPT ![r] = Rejected([@ EXCEPT !.failed = TRUE], "Prohibited")]
         /\ fab' = [fab EXCEPT !.mutex = Free]
         /\ lsn' = Left(l)
    ELSE /\ req' = [req EXCEPT ![r].target = stop.target, ![r].final = stop.final, ![r].i = stop.i,
                                ![r].first = stop.first, ![r].failed = TRUE]
         /\ lsn' = [Left(l) EXCEPT ![stop.target].isPending = FALSE]
         /\ UNCHANGED fab

\* the select of haveNewChannel: the context is done; inside the range the
\* next listener is tried, after it HandleTCPIP logs the error and returns
Aborted(r, l, q) ==
    /\ FabricDone
    /\ IF q.final
       THEN /\ req' = [req EXCEPT ![r] = Finished([@ EXCEPT !.failed = TRUE], "ctxErr")]
            /\ fab' = [fab EXCEPT !.mutex = Free]
            /\ lsn' = Left(l)
       ELSE Resumed(r, l, RangeFrom(q, q.i + 1, q.first))

HandleTCPIP_Deliver(r) ==
    /\ Running /\ req[r].pc = "send"
    /\ \/ Placed(r, req[r].target)
       \/ PlacedOnClosed(r, req[r].target)
       \/ Aborted(r, req[r].target, req[r])
    /\ FabricFrame

\* a write of the listeners map while a request reads it without the mutex
\* is a data race: the read sees the map before or after the write, or the
\* runtime detects it and ends the process
MapRace ==
    /\ \E r \in ReqIds : req[r].pc = "lookup"
    /\ fab' = [fab EXCEPT !.crash = "concurrent map read and map write"]
    /\ UNCHANGED <<lsn, req>>

\* append(listeners, listener): in place while the array has room, else in
\* a new array of twice the capacity
Grown(array, len, l) ==
    [j \in 1..(2 * Len(array)) |-> IF j <= len THEN array[j] ELSE IF j = len + 1 THEN l ELSE 0]

Added(f, port, entry, l) ==
    IF ~entry.ok
    THEN [f EXCEPT !.arrays = Append(@, <<l>>),
                   !.map[port] = [ok |-> TRUE, arr |-> Len(f.arrays) + 1, len |-> 1]]
    ELSE IF entry.len < Len(f.arrays[entry.arr])
    THEN [f EXCEPT !.arrays[entry.arr][entry.len + 1] = l, !.map[port].len = entry.len + 1]
    ELSE [f EXCEPT !.arrays = Append(@, Grown(f.arrays[entry.arr], entry.len, l)),
                   !.map[port] = [ok |-> TRUE, arr |-> Len(f.arrays) + 1, len |-> entry.len + 1]]

\* a listener as CreateListener builds it; served tells whether startTcpip
\* went on to start server.Serve on it, which calls Accept in a loop, or
\* left it behind because CreateFS failed
Kind(user, port, served) == [user |-> user, port |-> port, served |-> served]

Created(kind) ==
    [NewListener EXCEPT !.life = "open", !.user = kind.user, !.port = kind.port,
                        !.acc = IF kind.served THEN "serving" ELSE "none"]

\* the handler after startTcpip has called CreateListener for each listener
\* of the plan, from listener l on
RECURSIVE StartTcpip(_, _, _)
StartTcpip(f, plan, l) ==
    IF l > Len(plan) THEN f
    ELSE StartTcpip(Added(f, plan[l].port, f.map[plan[l].port], l), plan, l + 1)

NewSSHConnectionHandler(wiring) ==
    [wiring |-> wiring, rootDone |-> FALSE, mutex |-> Free, map |-> [p \in Ports |-> NoEntry],
     arrays |-> <<>>, crash |-> "none"]

Started(wiring, plan, requests) ==
    /\ fab = StartTcpip(NewSSHConnectionHandler(wiring), plan, 1)
    /\ lsn = [l \in 1..Len(plan) |-> Created(plan[l])]
    /\ req = [r \in 1..requests |-> NewRequest]

\* Accept receives a pair; pair.channel.Accept() succeeds and the
\* connection is returned, or fails and Accept returns its error
Accept_Receive(l) ==
    /\ Running /\ lsn[l].acc = "serving" /\ lsn[l].chan # <<>>
    /\ \/ /\ lsn' = [lsn EXCEPT ![l].chan = Tail(@)]
          /\ req' = [req EXCEPT ![Head(lsn[l].chan)].returned = @ + 1]
       \/ /\ lsn' = [lsn EXCEPT ![l].chan = Tail(@), ![l].acc = "failed"]
          /\ UNCHANGED req
    /\ UNCHANGED fab
    /\ FabricFrame

\* Accept receives the zero pair of a closed, empty channel and calls
\* Accept on its nil channel
Accept_Closed(l) ==
    /\ Running /\ lsn[l].acc = "serving" /\ lsn[l].chan = <<>> /\ lsn[l].closed
    /\ fab' = [fab EXCEPT !.crash = "nil pointer dereference"]
    /\ UNCHANGED <<lsn, req>>
    /\ FabricFrame

\* Accept returns s.ctx.Err()
Accept_Done(l) ==
    /\ Running /\ lsn[l].acc = "serving" /\ FabricDone
    /\ lsn' = [lsn EXCEPT ![l].acc = "ctxErr"]
    /\ UNCHANGED <<fab, req>>
    /\ FabricFrame

\* the listener is closed by its http.Server: by server.Close() after the
\* root context is done, or when Serve returns after an error of Accept; a
\* listener that startTcpip left behind has no server
ServerCloses(l) == lsn[l].acc # "none" /\ (fab.rootDone \/ lsn[l].acc \in {"failed", "ctxErr"})

\* the index of the listener in the slice, 0 when it is not there
IndexIn(array, len, l) ==
    IF \E j \in 1..len : array[j] = l
    THEN CHOOSE j \in 1..len : array[j] = l /\ \A k \in 1..(j - 1) : array[k] # l
    ELSE 0

\* append(listeners[:i], listeners[i+1:]...): the elements behind i move
\* one place to the front inside the same array
Shifted(array, len, i) ==
    [j \in 1..Len(array) |-> IF j < i THEN array[j] ELSE IF j < len THEN array[j + 1] ELSE array[j]]

Removed(f, port, entry, i) ==
    IF i = 0 THEN f
    ELSE [f EXCEPT !.arrays[entry.arr] = Shifted(@, entry.len, i), !.map[port].len = entry.len - 1]

RemovedFrom(f, port, entry, l) ==
    Removed(f, port, entry, IF entry.ok THEN IndexIn(f.arrays[entry.arr], entry.len, l) ELSE 0)

\* Close: removeListener under the mutex
Close_Remove(l) ==
    /\ Running /\ lsn[l].life = "open" /\ ServerCloses(l) /\ fab.mutex = Free
    /\ \/ /\ fab' = RemovedFrom(fab, lsn[l].port, fab.map[lsn[l].port], l)
          /\ lsn' = [lsn EXCEPT ![l].life = "removed"]
          /\ UNCHANGED req
       \/ MapRace
    /\ FabricFrame

\* Close: close(s.newChannelChan)
Close_Chan(l) ==
    /\ Running /\ lsn[l].life = "removed"
    /\ lsn' = [lsn EXCEPT ![l].life = "closed", ![l].closed = TRUE]
    /\ UNCHANGED <<fab, req>>
    /\ FabricFrame

\* the context given to Listen and startTcpip is cancelled
CancelRoot ==
    /\ Running /\ ~fab.rootDone
    /\ fab' = [fab EXCEPT !.rootDone = TRUE]
    /\ UNCHANGED <<lsn, req>>
    /\ FabricFrame

\* the WebDAV port of the configuration and another port
WebDavPort == 80
OtherPort == WebDavPort + 1

\* the listeners a handler is given: for a user, for all users, several on
\* one port, on two ports; all are served
Plans ==
    {<<Kind("u", WebDavPort, TRUE)>>,
     <<Kind("", WebDavPort, TRUE)>>,
     <<Kind("u", OtherPort, TRUE)>>,
     <<Kind("u", WebDavPort, TRUE), Kind("", WebDavPort, TRUE)>>,
     <<Kind("", WebDavPort, TRUE), Kind("u", WebDavPort, TRUE)>>,
     <<Kind("u", WebDavPort, TRUE), Kind("u", WebDavPort, TRUE)>>,
     <<Kind("u", WebDavPort, TRUE), Kind("", OtherPort, TRUE)>>}

OthersIdle ==
    /\ cfs = NoCfs /\ cfsRes = NoCfsCall
    /\ mvFS = NoMvFS /\ mvRes = NoMvCall
    /\ pathIn = <<>> /\ pathRes = NoPathCall
    /\ dirFS = NoDirFS /\ dirRes = NoDirCall
    /\ policy = NoPolicy /\ pwRes = NoPwCall
    /\ lsFS = NoLsFS /\ lsIter = NoLsIter /\ lsPage = NoLsPage
    /\ ServicesIdle

\* a handler built on the server's context, as its documentation shows
InitFabric ==
    /\ \E plan \in Plans : Started("shared", plan, MaxReqs)
    /\ OthersIdle

NextFabric ==
    \/ \E r \in ReqIds : HandleTCPIP_Start(r)
    \/ \E r \in ReqIds : HandleTCPIP_Lookup(r)
    \/ \E r \in ReqIds : HandleTCPIP_Lock(r)
    \/ \E r \in ReqIds : HandleTCPIP_Deliver(r)
    \/ \E l \in ListenerIds : Accept_Receive(l)
    \/ \E l \in ListenerIds : Accept_Closed(l)
    \/ \E l \in ListenerIds : Accept_Done(l)
    \/ \E l \in ListenerIds : Close_Remove(l)
    \/ \E l \in ListenerIds : Close_Chan(l)
    \/ CancelRoot

SpecFabric == InitFabric /\ [][NextFabric]_vars

\* the server as Listen wires it: MakeContext builds the handler on
\* context.Background(), startTcpip creates one listener on the WebDAV port
\* for each user with WebDav = true and serves it unless CreateFS fails
ServePlans ==
    {<<Kind("u", WebDavPort, served[1]), Kind("w", WebDavPort, served[2])>> : served \in BOOLEAN \X BOOLEAN}

InitServe ==
    /\ \E plan \in ServePlans : Started("MakeContext", plan, MaxServed)
    /\ OthersIdle

\* the server while its root context is not cancelled; s.ctx is never done
\* in this wiring, and a listener is closed only when its Serve returns
NextServe ==
    \/ \E r \in ReqIds : HandleTCPIP_Start(r)
    \/ \E r \in ReqIds : HandleTCPIP_Lookup(r)
    \/ \E r \in ReqIds : HandleTCPIP_Lock(r)
    \/ \E r \in ReqIds : HandleTCPIP_Deliver(r)
    \/ \E l \in ListenerIds : Accept_Receive(l)
    \/ \E l \in ListenerIds : Close_Remove(l)
    \/ \E l \in ListenerIds : Close_Chan(l)

\* goroutines that can run do run: a handler goes on, a waiting Lock gets
\* a mutex that is free again and again, a served listener's Accept is
\* called in a loop, a Close goes on
HandlersFair(n) ==
    \A r \in 1..n :
        /\ WF_vars(HandleTCPIP_Lookup(r))
        /\ SF_vars(HandleTCPIP_Lock(r))
        /\ WF_vars(HandleTCPIP_Deliver(r))

ListenersFair ==
    \A l \in {1, 2} :
        /\ WF_vars(Accept_Receive(l))
        /\ WF_vars(Accept_Closed(l))
        /\ SF_vars(Close_Remove(l))
        /\ WF_vars(Close_Chan(l))

SpecServe == InitServe /\ [][NextServe]_vars /\ HandlersFair(MaxServed) /\ ListenersFair

\* the server as Listen wires it, with the cancellation of the context
\* given to Listen and startTcpip
InitStop ==
    /\ \E plan \in ServePlans : Started("MakeContext", plan, MaxStopped)
    /\ OthersIdle

NextStop ==
    \/ \E r \in ReqIds : HandleTCPIP_Start(r)
    \/ \E r \in ReqIds : HandleTCPIP_Lookup(r)
    \/ \E r \in ReqIds : HandleTCPIP_Lock(r)
    \/ \E r \in ReqIds : HandleTCPIP_Deliver(r)
    \/ \E l \in ListenerIds : Accept_Receive(l)
    \/ \E l \in ListenerIds : Accept_Closed(l)
    \/ \E l \in ListenerIds : Close_Remove(l)
    \/ \E l \in ListenerIds : Close_Chan(l)
    \/ CancelRoot

SpecStop == InitStop /\ [][NextStop]_vars /\ HandlersFair(MaxStopped) /\ ListenersFair

----------------------------------------------------------------------------
(* Properties of the virtual port fabric *)

\* the registered, served listeners that are for the port and the user of
\* a request
ServingFor(dial) ==
    {l \in ListenerIds :
        /\ Registered(l) /\ lsn[l].acc = "serving"
        /\ lsn[l].port = dial.port /\ (lsn[l].user = dial.user \/ lsn[l].user = "")}

MatchingFor(dial) ==
    {l \in ListenerIds :
        Registered(l) /\ lsn[l].port = dial.port /\ (lsn[l].user = dial.user \/ lsn[l].user = "")}

\* exactly one listener is registered for the request, its Accept is called
\* in a loop, the context is not cancelled and the process lives
Sole(r) ==
    /\ Cardinality(MatchingFor(req[r].dial)) = 1
    /\ Cardinality(ServingFor(req[r].dial)) = 1
    /\ ~fab.rootDone /\ fab.crash = "none"

\* the request has passed the forwarding policy and is about to look up
\* its listeners
Admitted(r) == req[r].pc = "lookup"

\* handed to the listener once and returned by one Accept
Handed(r) ==
    /\ req[r].res = "forwarded" /\ req[r].returned = 1
    /\ Len(req[r].placed) = 1 /\ req[r].placed[1] \in MatchingFor(req[r].dial)

\* C12: while exactly one listener is registered for port P and user U,
\* its Accept is called again and again and the context is not cancelled,
\* every admitted channel for P authenticated as U is placed on that
\* listener once and eventually returned by one Accept; no channel is
\* placed or returned twice
Cex_C12_DeliveredOnce ==
    /\ [](\A r \in ReqIds : Len(req[r].placed) <= 1 /\ req[r].returned <= 1)
    /\ \A r \in 1..MaxServed : (Admitted(r) /\ Sole(r)) ~> (Handed(r) \/ ~Sole(r))

\* the request passes ssh.Unmarshal, the forwarding callback and the host
\* test
Passing(dial) ==
    /\ dial.parsed /\ LocalPortForwardingCallback(dial.user)
    /\ dial.host \in {"localhost", "127.0.0.1"}

\* the listener is for the port and the user of the request
For(dial, l) == lsn[l].port = dial.port /\ (lsn[l].user = dial.user \/ lsn[l].user = "")

\* the listeners whose channel holds the pair of the request
Holding(r) == {l \in ListenerIds : \E k \in 1..Len(lsn[l].chan) : lsn[l].chan[k] = r}

\* C13: a forwarded channel of user U for port P is placed only on
\* listeners of port P whose user is U or empty; a parsed request whose host
\* is not local, whose user the forwarding callback denies, or for which no
\* listener on P matches U ends rejected with Prohibited, placed on no
\* listener
Thm_C13_OnlyMatchingListeners ==
    \A r \in ReqIds :
        /\ \A k \in 1..Len(req[r].placed) : For(req[r].dial, req[r].placed[k])
        /\ \A l \in Holding(r) : For(req[r].dial, l)
        /\ (req[r].pc # "idle" /\ req[r].dial.parsed /\ (~Passing(req[r].dial) \/ ~req[r].met))
               => /\ req[r].placed = <<>> /\ Holding(r) = {}
                  /\ req[r].pc = "done" => req[r].res = "Prohibited"

\* a request of w for the WebDAV port, which passes the policy, has ranged
\* over the listeners registered on that port, none of which is for w, and
\* is rejected
Wit_C13_OnlyMatchingListeners ==
    \E r \in ReqIds :
        /\ req[r].pc = "done" /\ req[r].res = "Prohibited"
        /\ Passing(req[r].dial) /\ ~req[r].met
        /\ fab.map[req[r].dial.port].ok /\ fab.map[req[r].dial.port].len > 0

\* C14: a request's channel is placed on the request channel of at most
\* one listener and at most once, also when several listeners match and
\* when an attempt aborted by the cancelled context is followed by further
\* attempts; a rejected request is placed on no listener
Thm_C14_PlacedAtMostOnce ==
    \A r \in ReqIds :
        /\ Len(req[r].placed) <= 1
        /\ \A l \in Holding(r) : req[r].placed = <<l>>
        /\ req[r].res \in {"Prohibited", "ConnectionFailed", "ctxErr"} => req[r].placed = <<>>

\* several listeners match, an attempt was aborted by the cancelled
\* context, and a further attempt has placed the channel
Wit_C14_PlacedAtMostOnce ==
    \E r \in ReqIds :
        /\ req[r].failed /\ req[r].res = "forwarded" /\ Len(req[r].placed) = 1
        /\ Cardinality({l \in ListenerIds : For(req[r].dial, l)}) > 1

\* C15: the listeners of a port are read under the mutex, no read of the
\* map runs into a write of it, and the listener a request delivers to is
\* still in the registry
Cex_C15_RegistryUnderMutex ==
    /\ fab.crash # "concurrent map read and map write"
    /\ \A r \in ReqIds : req[r].pc \in {"lock", "send"} => req[r].locked
    /\ \A r \in ReqIds : req[r].pc = "send" => Registered(req[r].target)

\* the process has died of the unguarded read of the registry or of a send
\* to a listener removed behind the lookup
RegistryCrash == fab.crash \in {"concurrent map read and map write", "send on closed channel"}

\* C16: once the context given to Listen and startTcpip is cancelled, every
\* Accept of a served listener returns and no delivery waits on a
\* listener's request channel any more, the process living on (unless it
\* has died of the unguarded registry)
Cex_C16_CancelUnblocks ==
    fab.rootDone ~>
        \/ RegistryCrash
        \/ /\ fab.crash = "none"
           /\ \A l \in ListenerIds : lsn[l].acc # "serving"
           /\ \A r \in ReqIds : req[r].pc # "send"

----------------------------------------------------------------------------
(* Server start: ConfigSftp.CreateFS, ContextSftp.Listen, startTcpip, sftpHandler *)

\* a list of regular expressions of a UserEntry: empty, all compiling, or
\* with one that regexp.Compile refuses
RegexpLists == {"empty", "valid", "invalid"}

UserEntry(webDav, canRead, canWrite, shouldHide) ==
    [WebDav |-> webDav, CanRead |-> canRead, CanWrite |-> canWrite, ShouldHide |-> shouldHide]

UserEntries == {UserEntry(d, r, w, h) : d \in BOOLEAN, r \in RegexpLists, w \in RegexpLists, h \in RegexpLists}

ConfigUsers == {"u", "w"}

\* c.Users: the entries of the configured users
Configs == UNION {[present -> UserEntries] : present \in SUBSET ConfigUsers}

FSResult(err, fs) == [err |-> err, fs |-> fs]

\* intoRegexp of the three lists, in the order CanRead, CanWrite, ShouldHide
CreateFSWithPermission(userEntry) ==
    IF userEntry.CanRead = "invalid" THEN FSResult("regexp", "nil")
    ELSE IF userEntry.CanWrite = "invalid" THEN FSResult("regexp", "nil")
    ELSE IF userEntry.ShouldHide = "invalid" THEN FSResult("regexp", "nil")
    ELSE FSResult("nil", "PermWrapperFS")

CreateFS(users, username) ==
    IF username \notin DOMAIN users THEN FSResult("no config entry", "nil")
    ELSE IF /\ users[username].ShouldHide = "empty" /\ users[username].CanRead = "empty"
            /\ users[username].CanWrite = "empty"
    THEN FSResult("nil", "fs")
    ELSE CreateFSWithPermission(users[username])

\* the orders in which range c.config.Users can go through the users
RECURSIVE Orders(_)
Orders(S) == IF S = {} THEN {<<>>} ELSE UNION {{<<x>> \o o : o \in Orders(S \ {x})} : x \in S}

\* startTcpip for one user: the listener is created before CreateFS is
\* called; after an error of CreateFS the loop goes on with the next user
TcpipFor(users, username) == Kind(username, WebDavPort, CreateFS(users, username).err = "nil")

\* the filesystem behind the http.Server of a listener, "none" without server
ServerFS(users, kind) == IF kind.served THEN CreateFS(users, kind.user).fs ELSE "none"

StartedTcpip(plan) ==
    /\ fab' = StartTcpip(fab, plan, 1)
    /\ lsn' = [l \in 1..Len(plan) |-> Created(plan[l])]
    /\ boot' = [boot EXCEPT !.listening = TRUE,
                            !.servers = [l \in 1..Len(plan) |-> ServerFS(boot.users, plan[l])]]

StartFrame ==
    UNCHANGED <<pathIn, pathRes, dirFS, dirRes, policy, pwRes, lsFS, lsIter, lsPage, unionVars, moveVars,
                req, dav, davRes, adp, lg, cmd>>

\* Listen: startTcpip, then ListenAndServe
Listen ==
    /\ boot.kind = "ContextSftp" /\ ~boot.listening
    /\ \E order \in Orders({x \in DOMAIN boot.users : boot.users[x].WebDav}) :
           StartedTcpip([l \in 1..Len(order) |-> TcpipFor(boot.users, order[l])])
    /\ StartFrame

\* the filesystem sftpHandler gives to CreateSFTPHandler
SessionFS(created) == IF created.err # "nil" THEN "EmptyFS" ELSE created.fs

\* a user whose key is accepted opens the sftp subsystem
sftpHandler(username) ==
    /\ boot.kind = "ContextSftp" /\ boot.listening /\ Len(boot.sessions) < MaxSessions
    /\ boot' = [boot EXCEPT !.sessions =
                   Append(@, [user |-> username, fs |-> SessionFS(CreateFS(boot.users, username))])]
    /\ UNCHANGED <<fab, lsn>>
    /\ StartFrame

MakeContext(users) ==
    [kind |-> "ContextSftp", users |-> users, listening |-> FALSE, servers |-> <<>>, sessions |-> <<>>]

InitStart ==
    /\ \E users \in Configs : boot = MakeContext(users)
    /\ fab = NewSSHConnectionHandler("MakeContext") /\ lsn = NoLsn /\ req = NoReq
    /\ dav = NoDav /\ davRes = NoDavCall /\ adp = NoAdp /\ lg = NoLog /\ cmd = NoCmd
    /\ cfs = NoCfs /\ cfsRes = NoCfsCall
    /\ mvFS = NoMvFS /\ mvRes = NoMvCall
    /\ pathIn = <<>> /\ pathRes = NoPathCall
    /\ dirFS = NoDirFS /\ dirRes = NoDirCall
    /\ policy = NoPolicy /\ pwRes = NoPwCall
    /\ lsFS = NoLsFS /\ lsIter = NoLsIter /\ lsPage = NoLsPage

NextStart ==
    \/ Listen
    \/ \E username \in DOMAIN boot.users : sftpHandler(username)

SpecStart == InitStart /\ [][NextStart]_vars

----------------------------------------------------------------------------
(* Properties of the server start *)

\* building the filesystem of the user fails
Unbuildable(username) == CreateFS(boot.users, username).err # "nil"

\* C21: when CreateFS fails for a user, the user's SFTP sessions and the
\* WebDAV server on the user's listener are backed by EmptyFS, and every
\* registered listener has a server that accepts on it
Cex_C21_EmptyFSOnFailure ==
    boot.kind = "ContextSftp" =>
        /\ \A k \in DOMAIN boot.sessions :
               Unbuildable(boot.sessions[k].user) => boot.sessions[k].fs = "EmptyFS"
        /\ \A l \in DOMAIN lsn :
               /\ Registered(l) => boot.servers[l] # "none" /\ lsn[l].acc = "serving"
               /\ Unbuildable(lsn[l].user) => boot.servers[l] = "EmptyFS"

----------------------------------------------------------------------------
(* WebDAV adapter: fileSystemWrapper.OpenFile and the three handle variants *)

\* flags of package os, Linux build
O_RDONLY == 0
O_WRONLY == 1
O_RDWR == 2
O_CREATE == 64
O_TRUNC == 512

\* flag & mask on the bits of the two numbers
RECURSIVE BitAnd(_, _)
BitAnd(a, b) == IF a = 0 \/ b = 0 THEN 0 ELSE (a % 2) * (b % 2) + 2 * BitAnd(a \div 2, b \div 2)

\* the open flags a caller passes
OpenFlags ==
    {O_RDONLY, O_WRONLY, O_RDWR, O_WRONLY + O_CREATE, O_RDWR + O_CREATE, O_RDWR + O_CREATE + O_TRUNC}

\* the filesystem below the wrapper, seen at one file name: whether its
\* permission layer lets the name be read and written, and the file
NoHandle ==
    [variant |-> "none", flag |-> 0, offset |-> 0, stat |-> -1, reader |-> "nil", writer |-> "nil",
     closed |-> TRUE]

DavFS(readable, writable, exists, data) ==
    [kind |-> "webdav", readable |-> readable, writable |-> writable, exists |-> exists, data |-> data,
     h |-> NoHandle]

\* f.inner.Read(name): the positional reader or the error
FsRead(d) == IF ~d.readable THEN "ErrForbidden" ELSE IF ~d.exists THEN "ErrNotExist" ELSE "nil"

\* f.inner.Write(name): opens the file for writing and creates it if needed
FsWrite(d) == IF ~d.writable THEN "ErrForbidden" ELSE "nil"

\* f.inner.Stat(name)
FsStat(d) == IF ~d.readable THEN "ErrForbidden" ELSE IF ~d.exists THEN "ErrNotExist" ELSE "nil"

\* a handle as OpenFile builds it; stat -1 is the nil FileInfo
Handle(variant, flag, reader) ==
    [variant |-> variant, flag |-> flag, offset |-> 0, stat |-> -1, reader |-> reader, writer |-> "nil",
     closed |-> FALSE]

\* what a call on the wrapper or on a handle returns, and the filesystem
\* and handle after it; off is the handle's offset before the call
Called(d, op, arg, n, err, bytes) ==
    [d |-> d, res |-> [op |-> op, arg |-> arg, n |-> n, err |-> err, bytes |-> bytes]]

\* the first test of OpenFile, with the precedence of Go: && before ||
WantsReadWrite(flag) ==
    \/ /\ BitAnd(flag, O_CREATE) = O_CREATE \/ BitAnd(flag, O_WRONLY) = O_WRONLY
       /\ BitAnd(flag, O_RDONLY) = O_RDONLY
    \/ BitAnd(flag, O_RDWR) = O_RDWR

WantsWrite(flag) == BitAnd(flag, O_CREATE) = O_CREATE \/ BitAnd(flag, O_WRONLY) = O_WRONLY

OpenedFile(d, flag) ==
    IF WantsReadWrite(flag) THEN Called([d EXCEPT !.h = Handle("readwrite", flag, "nil")], "OpenFile", flag, 0, "nil", <<>>)
    ELSE IF WantsWrite(flag) THEN Called([d EXCEPT !.h = Handle("write", flag, "nil")], "OpenFile", flag, 0, "nil", <<>>)
    ELSE IF FsRead(d) # "nil" THEN Called(d, "OpenFile", flag, 0, FsRead(d), <<>>)
    ELSE Called([d EXCEPT !.h = Handle("read", flag, "open")], "OpenFile", flag, 0, "nil", <<>>)

\* ReadAt of the file behind the reader
ReadAt(data, len, off) ==
    IF off >= Len(data) THEN [n |-> 0, err |-> "EOF", bytes |-> <<>>]
    ELSE [n |-> min(len, Len(data) - off),
          err |-> IF Len(data) - off < len THEN "EOF" ELSE "nil",
          bytes |-> SubSeq(data, off + 1, off + min(len, Len(data) - off))]

\* Read of webdavReadFile and webdavReadWriteFile after the reader is
\* there: the offset advances only when ReadAt returned no error
ReadThrough(d, len, r) ==
    Called(IF r.err = "nil" THEN [d EXCEPT !.h.offset = @ + r.n] ELSE d, "Read", len, r.n, r.err, r.bytes)

HandleRead(d, len) ==
    IF d.h.variant = "write" THEN Called(d, "Read", len, 0, "ErrPermission", <<>>)
    ELSE IF d.h.reader = "open" THEN ReadThrough(d, len, ReadAt(d.data, len, d.h.offset))
    ELSE IF FsRead(d) # "nil" THEN Called(d, "Read", len, 0, FsRead(d), <<>>)
    ELSE ReadThrough([d EXCEPT !.h.reader = "open"], len, ReadAt(d.data, len, d.h.offset))

\* WriteAt of len bytes (written as 0) at off; a gap is filled with 0
WriteAt(data, len, off) ==
    [j \in 1..max(Len(data), off + len) |-> IF j > off /\ j <= off + len THEN 0
                                            ELSE IF j <= Len(data) THEN data[j] ELSE 0]

WrittenThrough(d, len) ==
    Called([d EXCEPT !.exists = TRUE, !.data = WriteAt(d.data, len, d.h.offset), !.h.writer = "open",
                     !.h.offset = @ + len],
           "Write", len, len, "nil", <<>>)

HandleWrite(d, len) ==
    IF d.h.variant = "read" THEN Called(d, "Write", len, 0, "ErrPermission", <<>>)
    ELSE IF d.h.writer = "open" THEN WrittenThrough(d, len)
    ELSE IF FsWrite(d) # "nil" THEN Called(d, "Write", len, 0, FsWrite(d), <<>>)
    ELSE WrittenThrough(d, len)

\* Stat of a handle: the FileInfo is fetched once and kept
HandleStat(d) ==
    IF d.h.stat # -1 THEN Called(d, "Stat", 0, d.h.stat, "nil", <<>>)
    ELSE IF FsStat(d) # "nil" THEN Called(d, "Stat", 0, 0, FsStat(d), <<>>)
    ELSE Called([d EXCEPT !.h.stat = Len(d.data)], "Stat", 0, Len(d.data), "nil", <<>>)

Whences == {"SeekStart", "SeekCurrent", "SeekEnd"}

\* whence = SeekEnd as lseek counts it
AbsOffset_FromEnd(h, size, offset, whence) ==
    CASE whence = "SeekStart" -> offset
      [] whence = "SeekCurrent" -> h.offset + offset
      [] whence = "SeekEnd" -> size + offset

AbsOffset(h, size, offset, whence) ==
    CASE whence = "SeekStart" -> offset
      [] whence = "SeekCurrent" -> h.offset + offset
      [] whence = "SeekEnd" -> size - 1 - offset

Sought(d, arg, absOffset, size) ==
    IF absOffset < 0 \/ absOffset >= size THEN Called(d, "Seek", arg, absOffset, "ErrInvalid", <<>>)
    ELSE Called([d EXCEPT !.h.offset = absOffset], "Seek", arg, absOffset, "nil", <<>>)

SeekAfterStat(arg, stat) ==
    IF stat.res.err # "nil" THEN Called(stat.d, "Seek", arg, 0, stat.res.err, <<>>)
    ELSE Sought(stat.d, arg, AbsOffset(stat.d.h, stat.res.n, arg.offset, arg.whence), stat.res.n)

HandleSeek(d, offset, whence) == SeekAfterStat([offset |-> offset, whence |-> whence], HandleStat(d))

\* Close of webdavReadWriteFile returns from inside the first if
ClosedReadWrite(h) ==
    IF h.reader = "open" THEN [h EXCEPT !.reader = "closed", !.closed = TRUE]
    ELSE IF h.writer = "open" THEN [h EXCEPT !.writer = "closed", !.closed = TRUE]
    ELSE [h EXCEPT !.closed = TRUE]

ClosedOne(h) ==
    [h EXCEPT !.reader = IF @ = "open" THEN "closed" ELSE @,
              !.writer = IF @ = "open" THEN "closed" ELSE @, !.closed = TRUE]

HandleClose(d) ==
    Called([d EXCEPT !.h = IF d.h.variant = "readwrite" THEN ClosedReadWrite(d.h) ELSE ClosedOne(d.h)],
           "Close", 0, 0, "nil", <<>>)

DavFrame ==
    UNCHANGED <<pathIn, pathRes, dirFS, dirRes, policy, pwRes, lsFS, lsIter, lsPage, unionVars, moveVars,
                fabVars, boot, adp, lg, cmd>>

\* the call before this one was a successful Seek(0, SeekStart)
Rewound == davRes.op = "Seek" /\ davRes.err = "nil" /\ davRes.arg = [offset |-> 0, whence |-> "SeekStart"]

\* the call is made: the filesystem, the handle and the result after it;
\* off is the handle's offset before the call
Made(call) ==
    /\ dav' = call.d
    /\ davRes' = call.res @@ [off |-> dav.h.offset, rewound |-> Rewound]
    /\ DavFrame

IsOpen == dav.kind = "webdav" /\ ~dav.h.closed

OpenFile ==
    /\ dav.kind = "webdav" /\ dav.h.closed
    /\ \E flag \in OpenFlags : Made(OpenedFile(dav, flag))

Read == IsOpen /\ \E len \in 1..MaxFile : Made(HandleRead(dav, len))

Write == IsOpen /\ \E len \in 1..MaxFile : dav.h.offset + len <= MaxFile /\ Made(HandleWrite(dav, len))

Seek == IsOpen /\ \E offset \in (-1)..MaxFile, whence \in Whences : Made(HandleSeek(dav, offset, whence))

Stat == IsOpen /\ Made(HandleStat(dav))

Close == IsOpen /\ Made(HandleClose(dav))

\* the file holds its positions as bytes: 1, 2, ... 
FileOf(n) == [j \in 1..n |-> j]

InitDav ==
    /\ \E readable \in BOOLEAN, writable \in BOOLEAN, n \in (-1)..MaxFile :
           dav = DavFS(readable, writable, n >= 0, FileOf(max(n, 0)))
    /\ davRes = NoDavCall
    /\ boot = NoBoot /\ adp = NoAdp /\ lg = NoLog /\ cmd = NoCmd
    /\ fab = NoFab /\ lsn = NoLsn /\ req = NoReq
    /\ cfs = NoCfs /\ cfsRes = NoCfsCall
    /\ mvFS = NoMvFS /\ mvRes = NoMvCall
    /\ pathIn = <<>> /\ pathRes = NoPathCall
    /\ dirFS = NoDirFS /\ dirRes = NoDirCall
    /\ policy = NoPolicy /\ pwRes = NoPwCall
    /\ lsFS = NoLsFS /\ lsIter = NoLsIter /\ lsPage = NoLsPage

NextDav == OpenFile \/ Read \/ Write \/ Seek \/ Stat \/ Close

SpecDav == InitDav /\ [][NextDav]_vars

----------------------------------------------------------------------------
(* WebDAV adapter: Readdir over the listing iterators *)

\* the buffer of one round of Readdir(0)
ReaddirChunk == 10

ReaddirResult(count, ents, err) == [op |-> "Readdir", count |-> count, ents |-> ents, err |-> err]

\* Readdir(0): the loop over chunks; i is the offset, total what was
\* appended so far, st the closure state of the iterator, seen the pairs
\* of offset and closure state the loop has been in: a round that comes
\* back to one of them goes round forever
RECURSIVE ReaddirLoop(_, _, _, _, _, _)

ReaddirRound(fs, p, i, total, seen, r) ==
    IF r.err \notin {"nil", "EOF"} THEN ReaddirResult(0, <<>>, r.err)
    ELSE IF r.n < 0 THEN ReaddirResult(0, <<>>, "panic")  \* result[:n]
    ELSE IF r.err = "EOF" THEN ReaddirResult(0, total \o r.ents, "nil")
    ELSE IF <<i + r.n, r.st>> \in seen THEN ReaddirResult(0, <<>>, "hang")
    ELSE ReaddirLoop(fs, p, r.st, i + r.n, total \o r.ents, seen \cup {<<i + r.n, r.st>>})

ReaddirLoop(fs, p, st, i, total, seen) ==
    ReaddirRound(fs, p, i, total, seen, ListAt(fs, p, st, ReaddirChunk, i))

\* Readdir(count) with count > 0: one call of the iterator at offset 0
ReaddirOnce(count, r) ==
    IF r.n < 0 THEN ReaddirResult(count, <<>>, "panic")
    ELSE ReaddirResult(count, IF r.n > 0 THEN r.ents ELSE <<>>, r.err)

HandleReaddir(fs, p, count) ==
    IF count < 0 THEN ReaddirResult(count, <<>>, "ErrInvalid")
    ELSE IF count = 0 THEN ReaddirLoop(fs, p, FreshIter, 0, <<>>, {<<0, FreshIter>>})
    ELSE ReaddirOnce(count, ListAt(fs, p, FreshIter, count, 0))

Readdir ==
    /\ lsFS.kind = "listing"
    /\ \E count \in (-1)..MaxBuf : lsPage' = HandleReaddir(lsFS, policy, count)
    /\ UNCHANGED <<pathIn, pathRes, dirFS, dirRes, policy, pwRes, lsFS, lsIter, unionVars, moveVars, fabVars, svcVars>>

\* a directory of n entries "a", "aa", ... in the order of os.ReadDir
ListedNames(n) == [j \in 1..n |-> Repeat("a", j)]

\* the names a policy can hide: the first, the second, the last
Hideable == {Repeat("a", 1), Repeat("a", 2), Repeat("a", MaxListed)}

InitReaddir ==
    /\ \E inner \in {"DirFs", "CombinedFS"}, wrapped \in BOOLEAN, n \in 0..MaxListed, path \in ListingPaths :
          /\ inner = "CombinedFS" => path = <<"/">>
          /\ lsFS = [kind |-> "listing", inner |-> inner, wrapped |-> wrapped, path |-> path,
                     entries |-> ListedNames(n), statFails |-> {}]
          /\ \E hide \in SUBSET Hideable, pad \in BOOLEAN :
                /\ ~wrapped => (hide = {} /\ ~pad)
                /\ policy = [CanReadRegexp |-> IF wrapped THEN <<RegexpAll>> ELSE <<>>,
                             CanWriteRegexp |-> <<>>,
                             ShouldHideRegexp |-> HideList(path, hide, pad)]
    /\ lsIter = NoLsIter /\ lsPage = NoLsPage
    /\ pathIn = <<>> /\ pathRes = NoPathCall
    /\ dirFS = NoDirFS /\ dirRes = NoDirCall /\ pwRes = NoPwCall
    /\ UnionIdle

NextReaddir == Readdir

SpecReaddir == InitReaddir /\ [][NextReaddir]_vars

\* the listing as the caller shall see it: the entries the policy hides
\* are left out
Visible(fs, p) == IF fs.wrapped /\ Len(p.ShouldHideRegexp) # 0 THEN Viewable(fs, p, fs.entries) ELSE fs.entries

\* C26: Readdir(0) ends and returns the whole listing, each entry once:
\* for a DirFs, for a filtered listing and for the root of a CombinedFS
\* with any number of mounts, more than the chunk of 10 included
Cex_C26_ReaddirAllComplete ==
    (lsFS.kind = "listing" /\ lsPage # NoLsPage /\ lsPage.count = 0)
        => lsPage.err = "nil" /\ lsPage.ents = Visible(lsFS, policy)

----------------------------------------------------------------------------
(* Properties of the WebDAV handles *)

\* the access mode of the open flags: O_RDONLY, O_WRONLY or O_RDWR
AccessMode(flag) == BitAnd(flag, O_WRONLY + O_RDWR)

HasHandle == dav.kind = "webdav" /\ dav.h.variant # "none"

\* C22: read-only flags give a handle whose Write fails with Forbidden,
\* write-only flags one whose Read fails with Forbidden, and only O_RDWR
\* gives a handle on which both Read and Write are possible
Cex_C22_HandleMatchesFlags ==
    HasHandle =>
        /\ AccessMode(dav.h.flag) = O_RDONLY => dav.h.variant = "read"
        /\ AccessMode(dav.h.flag) = O_WRONLY => dav.h.variant = "write"
        /\ dav.h.variant = "readwrite" => AccessMode(dav.h.flag) = O_RDWR
        /\ (davRes.op = "Write" /\ AccessMode(dav.h.flag) = O_RDONLY) => davRes.err = "ErrPermission"
        /\ (davRes.op = "Read" /\ AccessMode(dav.h.flag) = O_WRONLY) => davRes.err = "ErrPermission"

\* the handle is open on a readable file of n > 0 bytes
OnFile == HasHandle /\ ~dav.h.closed /\ dav.readable /\ dav.exists /\ Len(dav.data) > 0

\* what two calls in a row give
SameOutcome(one, two) == one.d = two.d /\ one.res.n = two.res.n /\ one.res.err = two.res.err

RewindThenRead(d) == HandleRead(HandleSeek(d, 0, "SeekStart").d, Len(d.data))

RewindThenSkip(d, k) == HandleSeek(HandleSeek(d, 0, "SeekStart").d, k, "SeekCurrent")

\* C23: on a file of n > 0 bytes, seek(0, Start) followed by read(n)
\* returns all n bytes, and seek(0, Start) followed by seek(k, Current)
\* gives the same handle state and return value as seek(k, Start), for
\* every 0 <= k < n
Cex_C23_SeekReadLaws ==
    OnFile =>
        /\ RewindThenRead(dav).res.bytes = dav.data
        /\ \A k \in 0..(Len(dav.data) - 1) :
               SameOutcome(HandleSeek(dav, k, "SeekStart"), RewindThenSkip(dav, k))

\* the target of a seek, written out
SeekTarget(whence, delta, before, size) ==
    IF whence = "SeekStart" THEN delta
    ELSE IF whence = "SeekCurrent" THEN before + delta
    ELSE size - 1 - delta

\* a Seek was the last call and its Stat succeeded: size is the size of
\* the handle's FileInfo
SeekDone == HasHandle /\ davRes.op = "Seek" /\ dav.h.stat # -1

SeekInside == SeekTarget(davRes.arg.whence, davRes.arg.offset, davRes.off, dav.h.stat) \in 0..(dav.h.stat - 1)

\* C24 as stated: Seek(0, End) on a non-empty file is rejected with
\* Invalid; a seek whose target size - 1 - delta (for End) lies outside
\* [0, size) fails with Invalid and leaves the offset, one inside sets it
Cex_C24_SeekEndRejected ==
    SeekDone =>
        /\ (davRes.arg = [offset |-> 0, whence |-> "SeekEnd"] /\ dav.h.stat > 0) => davRes.err = "ErrInvalid"
        /\ ~SeekInside => davRes.err = "ErrInvalid" /\ dav.h.offset = davRes.off
        /\ SeekInside => davRes.err = "nil" /\ dav.h.offset = davRes.n

\* C24 amended: a seek whose target (delta for Start, offset + delta for
\* Current, size - 1 - delta for End, size being that of the handle's
\* FileInfo) lies outside [0, size) fails with Invalid and leaves the
\* offset; one inside sets the offset to the target and returns it, so
\* Seek(0, End) on a non-empty file succeeds with offset size - 1
Thm_C24_SeekTargetRule ==
    SeekDone =>
        /\ davRes.n = SeekTarget(davRes.arg.whence, davRes.arg.offset, davRes.off, dav.h.stat)
        /\ ~SeekInside => davRes.err = "ErrInvalid" /\ dav.h.offset = davRes.off
        /\ SeekInside => davRes.err = "nil" /\ dav.h.offset = davRes.n
        /\ (davRes.arg = [offset |-> 0, whence |-> "SeekEnd"] /\ dav.h.stat > 0)
               => davRes.err = "nil" /\ dav.h.offset = dav.h.stat - 1

\* Seek(0, End) on a file of more than one byte has put the offset on the
\* last byte
Wit_C24_SeekTargetRule ==
    /\ SeekDone /\ davRes.arg = [offset |-> 0, whence |-> "SeekEnd"]
    /\ dav.h.stat > 1 /\ davRes.err = "nil" /\ dav.h.offset = dav.h.stat - 1 /\ davRes.off # dav.h.offset

\* C25: a Read or Write that transfers n bytes advances the offset of the
\* handle by n, the final short read with EOF included
Cex_C25_OffsetAdvances ==
    (HasHandle /\ davRes.op \in {"Read", "Write"}) => dav.h.offset = davRes.off + davRes.n

\* C30: after Close of a handle every reader and writer that the handle
\* opened is closed
Cex_C30_AllClosed ==
    (HasHandle /\ dav.h.closed) => dav.h.reader # "open" /\ dav.h.writer # "open"

----------------------------------------------------------------------------
(* SFTP adapter: one request, one filesystem call, one access-log entry *)

\* the method op of the CombinedFS c
CombinedFS_Results(c, op, args, flags) ==
    CASE op = "List" -> CombinedFS_ListResults(c, args[1])
      [] op = "Stat" -> CombinedFS_StatResults(c, args[1])
      [] op = "Lstat" -> CombinedFS_LstatResults(c, args[1])
      [] op = "ReadLink" -> CombinedFS_ReadLinkResults(c, args[1])
      [] op = "Read" -> CombinedFS_ReadResults(c, args[1])
      [] op = "Write" -> CombinedFS_WriteResults(c, args[1])
      [] op = "SetStat" -> CombinedFS_SetStatResults(c, args[1], flags)
      [] op = "Rmdir" -> CombinedFS_RmdirResults(c, args[1])
      [] op = "Rm" -> CombinedFS_RmResults(c, args[1])
      [] op = "Mkdir" -> CombinedFS_MkdirResults(c, args[1])
      [] op = "Rename" -> CombinedFS_RenameResults(c, args[1], args[2])
      [] op = "Link" -> CombinedFS_LinkResults(c, args[1], args[2])
      [] op = "Symlink" -> CombinedFS_SymlinkResults(c, args[1], args[2])

\* the method op of a PermWrapperFS with the policy p
PermWrapperFS_Results(p, op, args) ==
    CASE op = "List" -> PermWrapperFS_ListResults(p, args[1])
      [] op = "Stat" -> PermWrapperFS_StatResults(p, args[1])
      [] op = "Lstat" -> PermWrapperFS_LstatResults(p, args[1])
      [] op = "ReadLink" -> PermWrapperFS_ReadLinkResults(p, args[1])
      [] op = "Read" -> PermWrapperFS_ReadResults(p, args[1])
      [] op = "Write" -> PermWrapperFS_WriteResults(p, args[1])
      [] op = "SetStat" -> PermWrapperFS_SetStatResults(p, args[1])
      [] op = "Rmdir" -> PermWrapperFS_RmdirResults(p, args[1])
      [] op = "Rm" -> PermWrapperFS_RmResults(p, args[1])
      [] op = "Mkdir" -> PermWrapperFS_MkdirResults(p, args[1])
      [] op = "Rename" -> PermWrapperFS_RenameResults(p, args[1], args[2])
      [] op = "Link" -> PermWrapperFS_LinkResults(p, args[1], args[2])
      [] op = "Symlink" -> PermWrapperFS_SymlinkResults(p, args[1], args[2])

\* the attributes a Setstat request carries
RequestAttrFlags == {"Permissions"}

\* w.fs.op(args): the errors the filesystem of the adapter can return
FsErrors(fs, op, args) ==
    CASE fs.kind = "CombinedFS" -> {r.err : r \in CombinedFS_Results(fs, op, args, RequestAttrFlags)}
      [] fs.kind = "PermWrapperFS" -> {r.err : r \in PermWrapperFS_Results(fs.policy, op, args)}
      [] OTHER -> {r.err : r \in MountCall(fs, op, args, RequestAttrFlags)}

\* what a handler did before it logs: the normalized path, the number of
\* calls made on the filesystem, the error
Handled(path, calls, err) == [path |-> path, calls |-> calls, err |-> err]

FsCall(fs, op, path, args) == {Handled(path, 1, e) : e \in FsErrors(fs, op, args)}

\* the calls with a target: the target is normalized first
WithTarget(fs, op, path, t) ==
    IF t.err # "nil" THEN {Handled(path, 0, t.err)}
    ELSE FsCall(fs, op, path, <<path, t.path>>)

filecmdCall(fs, path, method, target) ==
    CASE method = "Setstat" -> FsCall(fs, "SetStat", path, <<path>>)
      [] method = "Rename" -> WithTarget(fs, "Rename", path, normalizePath(target))
      [] method = "Rmdir" -> FsCall(fs, "Rmdir", path, <<path>>)
      [] method = "Remove" -> FsCall(fs, "Rm", path, <<path>>)
      [] method = "Mkdir" -> FsCall(fs, "Mkdir", path, <<path>>)
      [] method = "Link" -> WithTarget(fs, "Link", path, normalizePath(target))
      [] method = "Symlink" -> WithTarget(fs, "Symlink", path, normalizePath(target))
      [] OTHER -> {Handled(path, 0, "unknown operation")}

fileListCall(fs, path, method) ==
    CASE method = "List" -> FsCall(fs, "List", path, <<path>>)
      [] method = "Lstat" -> FsCall(fs, "Lstat", path, <<path>>)
      [] method = "Stat" -> FsCall(fs, "Stat", path, <<path>>)
      [] method = "Readlink" -> FsCall(fs, "ReadLink", path, <<path>>)
      [] OTHER -> {Handled(path, 0, "unknown method")}

\* the status a handler logs for the error of its call
StatusOf(err) == IF err = "ErrForbidden" THEN "forbidden" ELSE IF err # "nil" THEN "error" ELSE "ok"

logAccess(log, path, kind, status) == Append(log, [path |-> path, kind |-> kind, status |-> status])

\* a handler: normalizePath on the request path, then the call, then the
\* entry in the access log
Request(a, handler, method, raw, target, n, outcomes) ==
    IF n.err # "nil"
    THEN {[a EXCEPT !.served = @ + 1,
                    !.log = logAccess(@, n.path, method, "error"),
                    !.last = [handler |-> handler, method |-> method, raw |-> raw, target |-> target,
                              calls |-> 0, err |-> n.err]]}
    ELSE {[a EXCEPT !.served = @ + 1,
                    !.log = logAccess(@, o.path, method, StatusOf(o.err)),
                    !.last = [handler |-> handler, method |-> method, raw |-> raw, target |-> target,
                              calls |-> o.calls, err |-> o.err]] : o \in outcomes}

CmdMethods == {"Setstat", "Rename", "Rmdir", "Remove", "Mkdir", "Link", "Symlink", "PosixRename"}
ListMethods == {"List", "Lstat", "Stat", "Readlink"}

\* request paths and targets as the client sends them
RequestPaths == {<<"/">>, <<"/", "a">>, <<"a", "/", "a">>, <<".", ".">>}
RequestTargets == {<<"/", "r">>, <<".", ".", "/", "a">>}

AdapterOpen == adp.kind = "adapter" /\ adp.served < MaxLogged
AdapterFrame == UNCHANGED <<pathIn, pathRes, dirFS, dirRes, policy, pwRes, lsFS, lsIter, lsPage,
                           unionVars, moveVars, fabVars, boot, dav, davRes, lg, cmd>>

Filecmd ==
    /\ AdapterOpen /\ AdapterFrame
    /\ \E method \in CmdMethods, raw \in RequestPaths, target \in RequestTargets :
          adp' \in Request(adp, "Filecmd", method, raw, target, normalizePath(raw),
                           IF normalizePath(raw).err = "nil"
                           THEN filecmdCall(adp.fs, normalizePath(raw).path, method, target) ELSE {})

Fileread ==
    /\ AdapterOpen /\ AdapterFrame
    /\ \E raw \in RequestPaths :
          adp' \in Request(adp, "Fileread", "Get", raw, <<>>, normalizePath(raw),
                           IF normalizePath(raw).err = "nil"
                           THEN FsCall(adp.fs, "Read", normalizePath(raw).path, <<normalizePath(raw).path>>) ELSE {})

Filewrite ==
    /\ AdapterOpen /\ AdapterFrame
    /\ \E raw \in RequestPaths :
          adp' \in Request(adp, "Filewrite", "Put", raw, <<>>, normalizePath(raw),
                           IF normalizePath(raw).err = "nil"
                           THEN FsCall(adp.fs, "Write", normalizePath(raw).path, <<normalizePath(raw).path>>) ELSE {})

Filelist ==
    /\ AdapterOpen /\ AdapterFrame
    /\ \E method \in ListMethods, raw \in RequestPaths :
          adp' \in Request(adp, "Filelist", method, raw, <<>>, normalizePath(raw),
                           IF normalizePath(raw).err = "nil"
                           THEN fileListCall(adp.fs, normalizePath(raw).path, method) ELSE {})

\* the filesystems CreateSFTPHandler is given: the EmptyFS, a DirFs, a
\* CombinedFS, a PermWrapperFS
AdapterPolicies ==
    {[CanReadRegexp |-> r, CanWriteRegexp |-> w, ShouldHideRegexp |-> h] :
        r \in {<<RegexpAll>>}, w \in {<<>>, <<RegexpAll>>}, h \in {<<>>, <<RegexpPrefix(<<"/", "a">>)>>}}

AdapterFS ==
    Mounts
    \cup {[kind |-> "CombinedFS", Dirs |-> dirs] : dirs \in [MountNames -> {m \in Mounts : m.Root # <<"/", "a">>}]}
    \cup {[kind |-> "PermWrapperFS", policy |-> p] : p \in AdapterPolicies}

NoRequest == [handler |-> "none"]

InitAdapter ==
    /\ adp \in {[kind |-> "adapter", fs |-> fs, served |-> 0, log |-> <<>>, last |-> NoRequest] : fs \in AdapterFS}
    /\ boot = NoBoot /\ dav = NoDav /\ davRes = NoDavCall /\ lg = NoLog /\ cmd = NoCmd
    /\ fab = NoFab /\ lsn = NoLsn /\ req = NoReq
    /\ cfs = NoCfs /\ cfsRes = NoCfsCall /\ mvFS = NoMvFS /\ mvRes = NoMvCall
    /\ pathIn = <<>> /\ pathRes = NoPathCall
    /\ dirFS = NoDirFS /\ dirRes = NoDirCall
    /\ policy = NoPolicy /\ pwRes = NoPwCall
    /\ lsFS = NoLsFS /\ lsIter = NoLsIter /\ lsPage = NoLsPage

NextAdapter == Filecmd \/ Fileread \/ Filewrite \/ Filelist

SpecAdapter == InitAdapter /\ [][NextAdapter]_vars

\* the request just handled and its entry, the last of the log
AdapterServed == adp.kind = "adapter" /\ adp.served > 0
LastEntry == adp.log[Len(adp.log)]

\* the path or the target of the request just handled failed normalization
NormalizationFailed ==
    \/ normalizePath(adp.last.raw).err # "nil"
    \/ adp.last.method \in {"Rename", "Link", "Symlink"} /\ normalizePath(adp.last.target).err # "nil"

\* the filesystem denied the operation: ErrForbidden of the wrapper and of
\* a read-only DirFs, os.ErrPermission of the EmptyFS and of the root of
\* the CombinedFS
DeniedWithForbidden == adp.last.calls = 1 /\ adp.last.err \in {"ErrForbidden", "ErrPermission"}

\* C27: every request handled by the adapter leaves exactly one entry in
\* the access log; its status is forbidden exactly when the filesystem
\* denied the operation, error for every other failure (a path or target
\* that fails normalization included, and then no filesystem call is
\* made), ok otherwise
Cex_C27_OneEntryPerRequest ==
    AdapterServed =>
        /\ Len(adp.log) = adp.served
        /\ LastEntry.kind = adp.last.method
        /\ NormalizationFailed => (adp.last.calls = 0 /\ LastEntry.status = "error")
        /\ LastEntry.status = "forbidden" <=> DeniedWithForbidden
        /\ LastEntry.status = "ok" <=> adp.last.err = "nil"
        /\ LastEntry.status \in {"ok", "forbidden", "error"}

----------------------------------------------------------------------------
(* Loggers: producers, the two unbuffered channels, the writer goroutine *)

\* the goroutines that log through the logger
Producers == {"g1", "g2", "g3"}

\* the line of the k-th log call of producer p
LineOf(p, k) == <<p, k>>

\* where the writer goroutine goes when `for text := range c` has handed
\* it a line: to fmt.Fprint
AfterReceive_Acknowledge == "ack"
AfterReceive == "write"

LogFrame == UNCHANGED <<pathIn, pathRes, dirFS, dirRes, policy, pwRes, lsFS, lsIter, lsPage,
                       unionVars, moveVars, fabVars, boot, dav, davRes, adp, cmd>>

LoggerOpen == lg.kind \in {"Logger", "AccessLogger"}

\* print / printStrings up to its send: the line is formatted and the
\* goroutine blocks in `l.channel <- line`
Print_Call(p) ==
    /\ LoggerOpen /\ lg.pc[p] = "idle" /\ lg.started[p] < MaxPrints
    /\ lg' = [lg EXCEPT !.pc[p] = "send", !.started[p] = @ + 1]
    /\ LogFrame

\* the send of p meets the receive of the writer (the channel has no
\* buffer); p goes on to `<-l.waitChannel`
Print_Send(p) ==
    /\ LoggerOpen /\ lg.pc[p] = "send" /\ lg.writer = "recv"
    /\ lg' = [lg EXCEPT !.pc[p] = "wait", !.writer = AfterReceive,
                        !.text = LineOf(p, lg.started[p]),
                        !.recvd = Append(@, LineOf(p, lg.started[p]))]
    /\ LogFrame

\* fmt.Fprint(writer, text): the line goes out, its first part and then
\* the rest
Writer_Begin ==
    /\ LoggerOpen /\ lg.writer = "write"
    /\ lg' = [lg EXCEPT !.writer = "rest", !.out = Append(@, [line |-> lg.text, part |-> "head"])]
    /\ LogFrame

Writer_End ==
    /\ LoggerOpen /\ lg.writer = "rest"
    /\ lg' = [lg EXCEPT !.writer = "ack", !.out = Append(@, [line |-> lg.text, part |-> "tail"])]
    /\ LogFrame

\* `wc <- true` of the writer meets `<-l.waitChannel` of p: p returns
\* from its log call, the writer goes back to the range over the channel
Print_Return(p) ==
    /\ LoggerOpen /\ lg.pc[p] = "wait" /\ lg.writer = "ack"
    /\ lg' = [lg EXCEPT !.pc[p] = "idle", !.writer = "recv",
                        !.returned[p] = @ + 1,
                        !.acked = [by |-> p, line |-> lg.text],
                        !.text = <<>>]
    /\ LogFrame

NoAck == [by |-> "none", line |-> <<>>]

\* NewLogger / NewAccessLogger: the channels are made, the writer
\* goroutine waits for the first line
InitLogger ==
    /\ lg \in {[kind |-> k, pc |-> [p \in Producers |-> "idle"], started |-> [p \in Producers |-> 0],
                returned |-> [p \in Producers |-> 0], writer |-> "recv", text |-> <<>>,
                recvd |-> <<>>, out |-> <<>>, acked |-> NoAck] : k \in {"Logger", "AccessLogger"}}
    /\ boot = NoBoot /\ dav = NoDav /\ davRes = NoDavCall /\ adp = NoAdp /\ cmd = NoCmd
    /\ fab = NoFab /\ lsn = NoLsn /\ req = NoReq
    /\ cfs = NoCfs /\ cfsRes = NoCfsCall /\ mvFS = NoMvFS /\ mvRes = NoMvCall
    /\ pathIn = <<>> /\ pathRes = NoPathCall
    /\ dirFS = NoDirFS /\ dirRes = NoDirCall
    /\ policy = NoPolicy /\ pwRes = NoPwCall
    /\ lsFS = NoLsFS /\ lsIter = NoLsIter /\ lsPage = NoLsPage

Print_Calls == \E p \in Producers : Print_Call(p)
Print_Sends == \E p \in Producers : Print_Send(p)
Print_Returns == \E p \in Producers : Print_Return(p)

NextLogger == Print_Calls \/ Print_Sends \/ Writer_Begin \/ Writer_End \/ Print_Returns

\* the writer goroutine runs whenever it can; a goroutine blocked in a
\* channel operation goes on when the other side is there (the senders
\* blocked on one channel are served in the order they came, so none is
\* passed over for ever)
LoggerFair ==
    /\ WF_vars(Writer_Begin) /\ WF_vars(Writer_End)
    /\ \A p \in Producers : SF_vars(Print_Send(p)) /\ WF_vars(Print_Return(p))

SpecLogger == InitLogger /\ [][NextLogger]_vars /\ LoggerFair

\* the lines written so far, whole: the heads that have their tail
WholeLines == [i \in 1..(Len(lg.out) \div 2) |-> lg.out[2 * i].line]

LineWritten(line) == \E i \in DOMAIN WholeLines : WholeLines[i] = line

\* lines go out whole and one at a time, in the order the writer
\* received them
WrittenInOrder ==
    /\ \A i \in DOMAIN lg.out :
          /\ lg.out[i].part = (IF i % 2 = 1 THEN "head" ELSE "tail")
          /\ lg.out[i].line = lg.recvd[(i + 1) \div 2]
    /\ Len(lg.recvd) - 1 <= Len(WholeLines)

\* every log call that has returned has its line written
ReturnedAfterWritten ==
    \A p \in Producers : \A k \in 1..lg.returned[p] : LineWritten(LineOf(p, k))

\* the acknowledgement went to the producer of the line just written
AckToOwner == lg.acked # NoAck => (lg.acked.line[1] = lg.acked.by /\ LineWritten(lg.acked.line))

LoggerSafe == LoggerOpen => (WrittenInOrder /\ ReturnedAfterWritten /\ AckToOwner)

\* C28: with several goroutines logging through one logger, a log call
\* returns only after its own line is written by the writer goroutine,
\* lines are written whole, one at a time and in the order received, each
\* acknowledgement is taken by the producer of the line just written, and
\* every log call returns
Thm_C28_SerializedLogging ==
    /\ []LoggerSafe
    /\ \A p \in Producers : (LoggerOpen /\ lg.pc[p] # "idle") ~> (lg.pc[p] = "idle")

\* all producers have logged at once: the first is back with its line
\* written while the line of another is on its way out and the third
\* still waits to send
Wit_C28_SerializedLogging ==
    /\ LoggerOpen
    /\ \E p, q, r \in Producers :
          /\ lg.returned[p] >= 1 /\ lg.acked.by = p
          /\ lg.pc[q] = "wait" /\ lg.writer = "rest"
          /\ lg.pc[r] = "send"

----------------------------------------------------------------------------
(* cmd server: the limit on the number of connections *)

Clients == 1..MaxClients

\* `c.config.MaxNumberOfConnections > 0 && conn > c.config.MaxNumberOfConnections`
TooMany(M, conn) == M > 0 /\ conn > M

\* the sessions whose handler is at pc
SessionsAt(c, pc) == {s \in Clients : c.pc[s] = pc}

CmdFrame == UNCHANGED <<pathIn, pathRes, dirFS, dirRes, policy, pwRes, lsFS, lsIter, lsPage,
                       unionVars, moveVars, fabVars, boot, dav, davRes, adp, lg>>

CmdUp == cmd.kind = "cmd"

\* handle, up to the test of the limit: the counter is raised by one and
\* the new value decides; served is the number of sessions running the
\* command at that moment
handle_Enter(s) ==
    /\ CmdUp /\ cmd.pc[s] = "none"
    /\ cmd' = [cmd EXCEPT !.activeConnections = @ + 1,
                          !.pc[s] = IF TooMany(cmd.config.MaxNumberOfConnections, cmd.activeConnections + 1)
                                    THEN "rejected" ELSE "running",
                          !.conn[s] = cmd.activeConnections + 1,
                          !.served[s] = Cardinality(SessionsAt(cmd, "running"))]
    /\ CmdFrame

\* the rejected session: the message is written, handle returns and the
\* deferred call lowers the counter
handle_Reject(s) ==
    /\ CmdUp /\ cmd.pc[s] = "rejected"
    /\ cmd' = [cmd EXCEPT !.activeConnections = @ - 1, !.pc[s] = "none"]
    /\ CmdFrame

\* the served session: the command ends or fails to start, handle
\* returns and the deferred call lowers the counter
handle_Return(s) ==
    /\ CmdUp /\ cmd.pc[s] = "running"
    /\ cmd' = [cmd EXCEPT !.activeConnections = @ - 1, !.pc[s] = "none"]
    /\ CmdFrame

\* MakeContextCmd: no active connection
InitCmd ==
    /\ cmd \in {[kind |-> "cmd", config |-> [MaxNumberOfConnections |-> M], activeConnections |-> 0,
                 pc |-> [s \in Clients |-> "none"], conn |-> [s \in Clients |-> 0],
                 served |-> [s \in Clients |-> 0]] : M \in 0..MaxLimit}
    /\ boot = NoBoot /\ dav = NoDav /\ davRes = NoDavCall /\ adp = NoAdp /\ lg = NoLog
    /\ fab = NoFab /\ lsn = NoLsn /\ req = NoReq
    /\ cfs = NoCfs /\ cfsRes = NoCfsCall /\ mvFS = NoMvFS /\ mvRes = NoMvCall
    /\ pathIn = <<>> /\ pathRes = NoPathCall
    /\ dirFS = NoDirFS /\ dirRes = NoDirCall
    /\ policy = NoPolicy /\ pwRes = NoPwCall
    /\ lsFS = NoLsFS /\ lsIter = NoLsIter /\ lsPage = NoLsPage

handle_Enters == \E s \in Clients : handle_Enter(s)
handle_Rejects == \E s \in Clients : handle_Reject(s)
handle_Returns == \E s \in Clients : handle_Return(s)

NextCmd == handle_Enters \/ handle_Rejects \/ handle_Returns

SpecCmd == InitCmd /\ [][NextCmd]_vars

Limit == cmd.config.MaxNumberOfConnections

\* never more than M sessions run the command
AtMostLimitServed == Limit > 0 => Cardinality(SessionsAt(cmd, "running")) <= Limit

\* the counter is the number of sessions inside handle: every session
\* that has returned left it as it found it
CounterBalanced == cmd.activeConnections = Cardinality(Clients \ SessionsAt(cmd, "none"))

\* a session is rejected only when M sessions were being served as it came
RejectedOnlyWhenFull == \A s \in SessionsAt(cmd, "rejected") : Limit > 0 /\ cmd.served[s] >= Limit

\* C29: with MaxNumberOfConnections = M > 0 at most M sessions run the
\* command at a time and a session is rejected only while M sessions are
\* being served; with M = 0 no session is rejected; the counter of active
\* connections is back at its value after every session
Cex_C29_ConnectionLimit ==
    CmdUp => (AtMostLimitServed /\ RejectedOnlyWhenFull /\ CounterBalanced)

----------------------------------------------------------------------------
(* More properties of the listings *)

\* the last call was made on the iterator of a DirFs itself
DirFsFilled == lsFS.kind = "listing" /\ lsFS.inner = "DirFs" /\ ~lsFS.wrapped /\ FillReturned

\* the entries the last call left undelivered
LeftAfterLast == Len(lsFS.entries) - (lsPage.last.offset + lsPage.last.n)

\* C31: the iterator of a DirFs returns EOF on the very call that delivers
\* the last entry of the directory, whatever the size of the buffer, also
\* when the entries that remain fill the buffer exactly; and it returns no
\* EOF on a call that leaves entries undelivered
Cex_C31_EofWithFinalEntry ==
    DirFsFilled =>
        /\ (lsPage.last.n > 0 /\ LeftAfterLast = 0) => lsPage.last.err = "EOF"
        /\ lsPage.last.err = "EOF" => LeftAfterLast <= 0

----------------------------------------------------------------------------
(* More properties of DirFs *)

\* ReadLink read a link of the host: os.Readlink was called
LinkRead == dirRes.op = "ReadLink" /\ \E i \in DOMAIN dirRes.sys : dirRes.sys[i].fn = "os.Readlink"

\* the host path lies in the tree of the root: the root itself, or the
\* root, a slash and more
InTree(root, path) ==
    \/ path = root
    \/ HasPrefix(path, IF root[Len(root)] = "/" THEN root ELSE root \o <<"/">>)

\* C32: ReadLink follows the link one step and tests again that the target
\* lies in the mount: for a link whose target is outside the root it fails
\* and asks the host nothing about the target
Cex_C32_ReadLinkContained ==
    LinkRead =>
        \A i \in DOMAIN dirRes.sys :
            dirRes.sys[i].fn = "os.Stat" => InTree(dirFS.Root, dirRes.sys[i].paths[1])

----------------------------------------------------------------------------
(* More properties of the virtual port fabric *)

\* the Accept of the listener is blocked in its select: its server calls
\* Accept and the channel holds no pair
AcceptWaits(l) == lsn[l].life = "open" /\ lsn[l].acc = "serving" /\ lsn[l].chan = <<>>

\* C33: isPending of a listener is true exactly while its Accept waits on
\* the request channel: a listener whose Accept is not called, or whose
\* channel still holds a pair that was not received, is not pending, so
\* that HandleTCPIP prefers a listener that waits
Cex_C33_PendingIffWaiting ==
    Running => \A l \in ListenerIds : lsn[l].life = "open" => (lsn[l].isPending <=> AcceptWaits(l))

----------------------------------------------------------------------------
(* More properties of the filtered listing *)

\* the stateless reference of the filtered iterator: the inner offset
\* behind the first `offset` viewable entries, found by filtering the inner
\* listing from its start; -1 when it has fewer viewable entries
RECURSIVE ReferenceOffset(_, _, _, _, _)
ReferenceOffset(fs, p, offset, i, realOffset) ==
    IF i = offset THEN realOffset
    ELSE IF realOffset >= Len(fs.entries) THEN -1
    ELSE IF Hidden(fs, p, fs.entries[realOffset + 1]) THEN ReferenceOffset(fs, p, offset, i, realOffset + 1)
    ELSE ReferenceOffset(fs, p, offset, i + 1, realOffset + 1)

\* what the reference returns: the batches from that inner offset on,
\* filtered, with no memory of earlier calls
ReferenceFrom(fs, p, lsLen, realOffset) ==
    IF realOffset < 0 THEN EmitResult(0, "EOF", <<>>, FreshIter)
    ELSE PermList_Emit(fs, p, lsLen, realOffset, FreshIter, {})

Reference(fs, p, lsLen, offset) == ReferenceFrom(fs, p, lsLen, ReferenceOffset(fs, p, offset, 0, 0))

SameAsReference(last, ref) ==
    /\ last.n = ref.n
    /\ last.err = ref.err
    /\ last.ents = ref.ents

\* C34: whatever calls were made before on the same filtered iterator,
\* with whatever offsets, a call returns the entries and the EOF status of
\* the stateless reference; the cache of hidden offsets changes no result
Cex_C34_CacheChangesNothing ==
    (FilteredIterator /\ lsFS.inner = "DirFs" /\ FillReturned)
        => SameAsReference(lsPage.last, Reference(lsFS, policy, lsPage.last.buf, lsPage.last.offset))


\* ---------------------------------------------------------------------
\* More properties of the cross-mount rename
\* ---------------------------------------------------------------------

\* the entry `name` of a node, NoNode where there is none
Sub(node, name) == IF node.kind = "dir" /\ name \in DOMAIN node.ents THEN node.ents[name] ELSE NoNode

\* what was at the source (b) is at the destination (d), no longer at the source (s)
MovedOver(b, s, d) == s.kind = "none" /\ d = b

\* what was at the source is still there, and nothing is at the destination
Untouched(b, s, d) == s = b /\ d.kind = "none"

RECURSIVE Interrupted(_, _, _)
\* the move of b stopped part-way: a file is whole at the source, and the
\* destination holds nothing or a file of its first bytes; a directory is
\* still at the source, and in the order of its listing its entries are
\* first moved over, then one at most interrupted, then untouched
Interrupted(b, s, d) ==
    IF b.kind = "file"
    THEN s = b /\ (d.kind = "none" \/ (d.kind = "file" /\ IsPrefixOf(d.data, b.data)))
    ELSE /\ s.kind = "dir" /\ DOMAIN s.ents \subseteq DOMAIN b.ents
         /\ \/ d.kind = "none" /\ s = b
            \/ /\ d.kind = "dir" /\ DOMAIN d.ents \subseteq DOMAIN b.ents
               /\ LET names == SortStrings(DOMAIN b.ents)
                  IN  \E k \in 1..(Len(names) + 1) : \A j \in 1..Len(names) :
                        LET was == b.ents[names[j]]
                            src == Sub(s, names[j])
                            dst == Sub(d, names[j])
                        IN  /\ j < k => MovedOver(was, src, dst)
                            /\ j = k => (Untouched(was, src, dst) \/ Interrupted(was, src, dst))
                            /\ j > k => Untouched(was, src, dst)

\* C35: a fallback rename to a path where nothing was, when it fails, has
\* removed a source file only after copying it whole and a source
\* directory only after moving all its entries: every file of the source
\* tree is whole at the source or at the destination, and the failed item
\* and the items after it are still at the source
Thm_C35_FallbackKeepsSource ==
    (Moved /\ mvFS.kind = "wrapped" /\ mvRes.err # "nil"
           /\ SrcBefore.kind \in {"file", "dir"} /\ DstBefore.kind = "none")
        => (Untouched(SrcBefore, SrcAfter, DstAfter) \/ Interrupted(SrcBefore, SrcAfter, DstAfter))

\* a call on the host failed in the middle of a directory: one entry has
\* been moved over, another is still at the source
Wit_C35_FallbackKeepsSource ==
    /\ Moved /\ mvFS.kind = "wrapped" /\ mvRes.err = "os error" /\ mvRes.faulted
    /\ SrcBefore.kind = "dir" /\ DstBefore.kind = "none"
    /\ SrcAfter.kind = "dir" /\ DstAfter.kind = "dir"
    /\ \E moved \in DOMAIN SrcBefore.ents, left \in DOMAIN SrcBefore.ents :
          /\ MovedOver(SrcBefore.ents[moved], Sub(SrcAfter, moved), Sub(DstAfter, moved))
          /\ SrcBefore.ents[moved].kind = "file" /\ Len(SrcBefore.ents[moved].data) > 0
          /\ Sub(SrcAfter, left) = SrcBefore.ents[left]
          /\ Sub(DstAfter, left).kind = "file" /\ Sub(DstAfter, left) # SrcBefore.ents[left]


----------------------------------------------------------------------------
(* The WebDAV adapter on a guarded directory: fileSystemWrapper hands the
   name of the request to a PermWrapperFS whose Inner is a DirFs *)

\* names a request can carry: the handler is given the path of the URL as
\* the client sent it
RequestNames ==
    {<<"/", "a">>, <<"/", "r">>, <<"/", "a", "/", "r">>,
     <<"/", "r", "/", ".", ".", "/", "a">>, <<"/", "/", "a">>, <<"/", ".", "/", "a">>,
     <<"/", "a", "/", ".", ".", "/", "r">>}

\* a call of the wrapper (answers guarded) whose Inner is the DirFs
\* (answers served): a denied call never reaches the DirFs, a passed call
\* returns what the DirFs returns
ThroughGuard(guarded, served) ==
    {<<pw, NoDirCall>> : pw \in {x \in guarded : x.inner = <<>>}}
    \cup {<<[pw EXCEPT !.err = dr.err], dr>> : pw \in {x \in guarded : x.inner # <<>> /\ x.err = "nil"}, dr \in served}

GuardIdle == pwRes.op = "none" /\ dirRes.op = "none"

GuardFrame ==
    UNCHANGED <<pathIn, pathRes, dirFS, policy, lsFS, lsIter, lsPage, unionVars, moveVars, fabVars, svcVars>>

Answered(results) == \E r \in results : pwRes' = r[1] /\ dirRes' = r[2]

\* fileSystemWrapper.Mkdir
Wrapper_Mkdir ==
    /\ GuardIdle /\ GuardFrame
    /\ \E name \in RequestNames :
          Answered(ThroughGuard(PermWrapperFS_MkdirResults(policy, name), DirFs_MkdirResults(dirFS, name)))

\* fileSystemWrapper.OpenFile with read-only flags: inner.Read
Wrapper_OpenFile ==
    /\ GuardIdle /\ GuardFrame
    /\ \E name \in RequestNames :
          Answered(ThroughGuard(PermWrapperFS_ReadResults(policy, name), DirFs_ReadResults(dirFS, name)))

\* fileSystemWrapper.RemoveAll
Wrapper_RemoveAll ==
    /\ GuardIdle /\ GuardFrame
    /\ \E name \in RequestNames :
          Answered(ThroughGuard(PermWrapperFS_RmResults(policy, name), DirFs_RmResults(dirFS, name)))

\* fileSystemWrapper.Stat
Wrapper_Stat ==
    /\ GuardIdle /\ GuardFrame
    /\ \E name \in RequestNames :
          Answered(ThroughGuard(PermWrapperFS_StatResults(policy, name), DirFs_StatResults(dirFS, name)))

InitGuard ==
    /\ policy \in [CanReadRegexp : PolicyLists, CanWriteRegexp : PolicyLists,
                   ShouldHideRegexp : PolicyLists]
    /\ dirFS \in [Root : {<<"/", "r">>}, Readonly : BOOLEAN]
    /\ pwRes = NoPwCall /\ dirRes = NoDirCall
    /\ pathIn = <<>> /\ pathRes = NoPathCall
    /\ lsFS = NoLsFS /\ lsIter = NoLsIter /\ lsPage = NoLsPage
    /\ UnionIdle
    /\ ServicesIdle

NextGuard == Wrapper_Mkdir \/ Wrapper_OpenFile \/ Wrapper_RemoveAll \/ Wrapper_Stat

SpecGuard == InitGuard /\ [][NextGuard]_vars

\* the virtual path of a host path under the root of the DirFs
VirtualOf(d, host) ==
    IF host = d.Root THEN <<"/">> ELSE SubSeq(host, Len(d.Root) + 1, Len(host))

\* the virtual paths of the files the request reached on the host
Reached == {VirtualOf(dirFS, dirRes.sys[i].paths[j]) : i \in DOMAIN dirRes.sys, j \in {1}}

GuardServed == pwRes.op # "none" /\ dirRes.op # "none" /\ Len(dirRes.sys) > 0

\* C36: the path the policy is decided on is the normalized virtual path
\* of the file the request reaches, for every name of a request: no
\* request reaches a file whose virtual path is hidden or lacks the
\* permission to read (Stat, OpenFile) or to write (Mkdir, RemoveAll)
Cex_C36_PolicyOnAccessedPath ==
    GuardServed =>
        \A v \in Reached :
            /\ ~ShouldHide(policy, v)
            /\ pwRes.op \in {"Stat", "Read"} => CanRead(policy, v)
            /\ pwRes.op \in {"Mkdir", "Rm"} => CanWrite(policy, v)


----------------------------------------------------------------------------
(* More properties of the listeners' request channels *)

\* C37: in every interleaving of Close, Accept and HandleTCPIP a closed
\* request channel is never used as an open one: no Accept takes the zero
\* pair of a closed channel for a request and builds a connection from it,
\* and no HandleTCPIP sends to a listener whose channel is closed
Cex_C37_ClosedChannelNeverUsed ==
    /\ fab.crash # "nil pointer dereference"
    /\ fab.crash # "send on closed channel"
    /\ \A r \in ReqIds : req[r].pc = "send" => ~lsn[req[r].target].closed

\* the delivery of r waits in haveNewChannel: the request channel of its
\* target is full and no Accept is receiving from it
Waits(r) ==
    /\ req[r].pc = "send"
    /\ Len(lsn[req[r].target].chan) = ChanCap
    /\ lsn[req[r].target].acc # "serving"

\* C38: while a delivery waits on the full request channel of a listener
\* that is not accepting, a HandleTCPIP for another user or port that has
\* come to the mutex goes on, and a Close that has begun removes its
\* listener
Cex_C38_WaitingDeliveryBlocksNoOne ==
    /\ \A r \in 1..MaxServed, other \in 1..MaxServed :
          (Waits(r) /\ req[other].pc = "lock" /\ ~For(req[other].dial, req[r].target))
              ~> (req[other].pc # "lock")
    /\ \A r \in 1..MaxServed, l \in {1, 2} :
          (Waits(r) /\ Registered(l) /\ ServerCloses(l)) ~> ~Registered(l)


----------------------------------------------------------------------------
(* More properties of IntoAbsPath *)

\* C39: for every root and every path, normalized or not, IntoAbsPath
\* returns an error or a host path in the tree of the root (the root, or
\* the root, a slash and more segments), never a sibling whose name begins
\* like the root's last segment, and it never fails with a slice out of
\* range when the joined path is shorter than the root
Cex_C39_IntoAbsPathInTree ==
    dirRes.op # "none" =>
        /\ dirRes.err # "panic"
        /\ \A k \in DOMAIN dirRes.abs : InTree(dirFS.Root, dirRes.abs[k])


----------------------------------------------------------------------------
(* WrapPTY: the command on a pty, its output copied to the session by
   WrapPTY itself and the session's input copied to the pty by a goroutine
   that reports through errChan *)

\* cmd.errChan is the channel as `var errChan chan error` declares it: nil,
\* no make follows. A send to a nil channel and a receive from it block for
\* ever, so there is no step out of the positions "send" and "receive";
\* close of a nil channel panics.
\* wrap is the position of WrapPTY ("start", "copy", "receive",
\* "returned"), input the position of the goroutine ("none", "copy",
\* "send", "done"), handle that of ContextCmd.handle around WrapPTY.

PtyFrame == UNCHANGED <<pathIn, pathRes, dirFS, dirRes, policy, pwRes, lsFS, lsIter, lsPage,
                       unionVars, moveVars, fabVars, boot, dav, davRes, adp, lg>>

PtyUp == cmd.kind = "pty" /\ cmd.crash = "none"

\* pty.Start(cmd): on an error WrapPTY returns it, else the two goroutines
\* are started and WrapPTY goes into io.Copy(s, f)
WrapPTY_Start ==
    /\ PtyUp /\ cmd.wrap = "start"
    /\ \/ cmd' = [cmd EXCEPT !.wrap = "returned", !.err = "start error"]
       \/ cmd' = [cmd EXCEPT !.wrap = "copy", !.input = "copy"]
    /\ PtyFrame

\* io.Copy(s, f) moves a piece of the command's output to the session
Output_Copy ==
    /\ PtyUp /\ cmd.wrap = "copy" /\ cmd.out < MaxCopied
    /\ cmd' = [cmd EXCEPT !.out = @ + 1]
    /\ PtyFrame

\* io.Copy(s, f) returns: with an error, which WrapPTY returns, or with nil
\* at the end of the output, and WrapPTY goes on to `err, ok := <-errChan`
Output_End ==
    /\ PtyUp /\ cmd.wrap = "copy"
    /\ \/ cmd' = [cmd EXCEPT !.wrap = "returned", !.err = "output error"]
       \/ cmd' = [cmd EXCEPT !.wrap = "receive"]
    /\ PtyFrame

\* io.Copy(f, s) of the goroutine moves a piece of the session's input
Input_Copy ==
    /\ PtyUp /\ cmd.input = "copy" /\ cmd.inp < MaxCopied
    /\ cmd' = [cmd EXCEPT !.inp = @ + 1]
    /\ PtyFrame

\* io.Copy(f, s) returns: with an error the goroutine goes to
\* `errChan <- err`; with nil it returns and its deferred close(errChan)
\* runs on the nil channel
Input_End ==
    /\ PtyUp /\ cmd.input = "copy"
    /\ \/ cmd' = [cmd EXCEPT !.input = "send", !.inputErr = "input error"]
       \/ cmd' = [cmd EXCEPT !.input = "done", !.crash = "close of nil channel"]
    /\ PtyFrame

\* handle after WrapPTY returned: the error is logged, the deferred
\* decrement of activeConnections runs
handle_Leave ==
    /\ PtyUp /\ cmd.wrap = "returned" /\ cmd.handle = "WrapPTY"
    /\ cmd' = [cmd EXCEPT !.handle = "returned", !.logged = cmd.err]
    /\ PtyFrame

InitPty ==
    /\ cmd = [kind |-> "pty", errChan |-> "nil", wrap |-> "start", input |-> "none", handle |-> "WrapPTY",
              err |-> "nil", inputErr |-> "nil", logged |-> "nil", out |-> 0, inp |-> 0, crash |-> "none"]
    /\ boot = NoBoot /\ dav = NoDav /\ davRes = NoDavCall /\ adp = NoAdp /\ lg = NoLog
    /\ fab = NoFab /\ lsn = NoLsn /\ req = NoReq
    /\ cfs = NoCfs /\ cfsRes = NoCfsCall /\ mvFS = NoMvFS /\ mvRes = NoMvCall
    /\ pathIn = <<>> /\ pathRes = NoPathCall
    /\ dirFS = NoDirFS /\ dirRes = NoDirCall
    /\ policy = NoPolicy /\ pwRes = NoPwCall
    /\ lsFS = NoLsFS /\ lsIter = NoLsIter /\ lsPage = NoLsPage

NextPty == WrapPTY_Start \/ Output_Copy \/ Output_End \/ Input_Copy \/ Input_End \/ handle_Leave

\* a goroutine that can take a step takes it; both copies end
PtyFair ==
    /\ WF_vars(WrapPTY_Start) /\ WF_vars(Output_End) /\ WF_vars(Input_End) /\ WF_vars(handle_Leave)

SpecPty == InitPty /\ [][NextPty]_vars /\ PtyFair

\* the command's output has ended and the copy of the input has finished
\* or failed
CopiesEnded == cmd.wrap \in {"receive", "returned"} /\ cmd.err # "start error" /\ cmd.input \in {"send", "done"}

\* C40: once the output has ended and the copy of the input has finished
\* or failed, WrapPTY returns, with the error of that copy if there was
\* one; the goroutine does not stay in its send for ever, and nothing
\* panics on the error channel
Cex_C40_WrapPTYReturns ==
    /\ [](cmd.crash = "none")
    /\ CopiesEnded ~> (cmd.wrap = "returned" /\ (cmd.inputErr # "nil" => cmd.err \in {cmd.inputErr, "output error"}))
    /\ (cmd.input = "send") ~> (cmd.input = "done")

====
